---- MODULE Spec2Model ----
(***************************************************************************)
(* A model of the eBay Finding API client (package ebay): the five Find*   *)
(* calls of FindingClient, the per-operation parameter validation          *)
(* (findParamsValidator.validate), the filter parser (filter.go) and the   *)
(* coordinating findItems routine.                                         *)
(*                                                                         *)
(* Go strings are TLA+ strings; a Go map[string]string is a function whose *)
(* DOMAIN is the set of keys present; a *string is <<>> (nil) or <<v>>;    *)
(* an error is the name of its sentinel ("nil" when there is none), which  *)
(* is what errors.Is observes.                                             *)
(***************************************************************************)
EXTENDS Integers, Sequences, FiniteSets, TLC

VARIABLES
    URL,      \* FindingClient.URL, the endpoint the requests are built for
    params,   \* the caller's map[string]string, passed to every call
    now,      \* the wall clock read by isValidDateTime (time.Now().UTC())
    op,       \* the operation of the last Find* call ("none" before the first)
    steps,    \* what the last call did, in order: validate, newRequest, Do, Decode
    resp,     \* what c.Do returned to the last call, NoResponse if it was not called
    fp,       \* the findParamsValidator of the last call after validate
    apiErr,   \* the *APIError the last call returned: [Err, StatusCode], or NoAPIError
    req,      \* the query of the request the last call handed to c.Do, None if none
    calls     \* the calls in flight on the client at once, each with its own locals

vars == <<URL, params, now, op, steps, resp, fp, apiErr, req, calls>>

\* ------------------------------------------------------------------------
\* Go values
\* ------------------------------------------------------------------------

nil == "nil"

None == <<>>

Some(v) == <<v>>

Has(m, k) == k \in DOMAIN m

\* fmt.Sprintf("<pre>(%d)<suf>", i)
Sprintf(pre, i, suf) == pre \o "(" \o ToString(i) \o ")" \o suf

Char(s, i) == SubSeq(s, i, i)

Contains(list, v) == \E i \in 1..Len(list) : list[i] = v

Digits == {"0", "1", "2", "3", "4", "5", "6", "7", "8", "9"}

DigitVal(c) ==
    CASE c = "0" -> 0 [] c = "1" -> 1 [] c = "2" -> 2 [] c = "3" -> 3
      [] c = "4" -> 4 [] c = "5" -> 5 [] c = "6" -> 6 [] c = "7" -> 7
      [] c = "8" -> 8 [] c = "9" -> 9

AllDigits(s) == \A i \in 1..Len(s) : Char(s, i) \in Digits

RECURSIVE NatVal(_)
NatVal(s) ==
    IF Len(s) = 0 THEN 0
    ELSE 10 * NatVal(SubSeq(s, 1, Len(s) - 1)) + DigitVal(Char(s, Len(s)))

\* The digits of a decimal literal after its optional sign.
Unsigned(s) ==
    IF Len(s) > 0 /\ Char(s, 1) \in {"+", "-"} THEN SubSeq(s, 2, Len(s)) ELSE s

\* strconv.Atoi(s) returns a non-nil error: s is not [+-]?[0-9]+, or it does
\* not fit an int (64 bits: every literal of at most 18 digits fits, and the
\* model holds no longer one that would).
AtoiErr(s) == ~(Len(Unsigned(s)) > 0 /\ AllDigits(Unsigned(s)) /\ Len(Unsigned(s)) <= 18)

\* The int strconv.Atoi(s) returns when AtoiErr(s) is false.
Atoi(s) ==
    IF Len(s) > 0 /\ Char(s, 1) = "-" THEN 0 - NatVal(Unsigned(s)) ELSE NatVal(Unsigned(s))

RECURSIVE Pow10(_)
Pow10(k) == IF k = 0 THEN 1 ELSE 10 * Pow10(k - 1)

\* The position of the first "." of s, 0 when there is none.
DotAt(s) ==
    IF \E i \in 1..Len(s) : Char(s, i) = "."
    THEN CHOOSE i \in 1..Len(s) : Char(s, i) = "." /\ \A j \in 1..(i - 1) : Char(s, j) # "."
    ELSE 0

\* strconv.ParseFloat(s, 64) on the literals the model holds: the special
\* values NaN and [+-]Inf, and decimals [+-]?digits[.digits] with a digit on
\* at least one side of the point.  The float64 is kept exactly, as
\* mant / 10^frac; kind is "num", "nan" or "inf".
ParseFloat(s) ==
    LET u == Unsigned(s)
        neg == Len(s) > 0 /\ Char(s, 1) = "-"
        d == DotAt(u)
        ip == IF d = 0 THEN u ELSE SubSeq(u, 1, d - 1)
        fr == IF d = 0 THEN "" ELSE SubSeq(u, d + 1, Len(u))
    IN  IF s = "NaN" THEN [err |-> FALSE, kind |-> "nan", neg |-> FALSE, mant |-> 0, frac |-> 0]
        ELSE IF s \in {"Inf", "+Inf", "-Inf"}
        THEN [err |-> FALSE, kind |-> "inf", neg |-> neg, mant |-> 0, frac |-> 0]
        ELSE IF Len(ip) + Len(fr) > 0 /\ AllDigits(ip) /\ AllDigits(fr)
        THEN [err |-> FALSE, kind |-> "num", neg |-> neg,
              mant |-> IF neg THEN 0 - NatVal(ip \o fr) ELSE NatVal(ip \o fr),
              frac |-> Len(fr)]
        ELSE [err |-> TRUE, kind |-> "num", neg |-> FALSE, mant |-> 0, frac |-> 0]

\* a < b on float64 values: false whenever either side is NaN.
FloatLess(a, b) ==
    IF a.kind = "nan" \/ b.kind = "nan" THEN FALSE
    ELSE IF a.kind = "inf" THEN a.neg /\ ~(b.kind = "inf" /\ b.neg)
    ELSE IF b.kind = "inf" THEN ~b.neg
    ELSE a.mant * Pow10(b.frac) < b.mant * Pow10(a.frac)

FloatZero == [err |-> FALSE, kind |-> "num", neg |-> FALSE, mant |-> 0, frac |-> 0]

Fail(e) == [err |-> e, val |-> <<>>]

Ok(v) == [err |-> nil, val |-> v]

\* "if err != nil { return nil, err }; return v, nil"
ErrOr(e, v) == IF e # nil THEN Fail(e) ELSE Ok(v)

\* ------------------------------------------------------------------------
\* Category IDs, keywords, product ID, store name
\* ------------------------------------------------------------------------

maxCategoryIDs == 3

maxCategoryIDLen == 10

minKeywordsLen == 2

maxKeywordsLen == 350

maxKeywordLen == 98

isbnShortLen == 10

isbnLongLen == 13

upcLen == 12

eanShortLen == 8

eanLongLen == 13

validateCategoryID(id) ==
    IF Len(id) > maxCategoryIDLen THEN "ErrInvalidCategoryIDLength"
    ELSE IF AtoiErr(id) THEN "ErrInvalidCategoryID"
    ELSE nil

\* The loop of processCategoryIDs without the check of the number of IDs.
RECURSIVE categoryIDLoopNoMax(_, _, _)
categoryIDLoopNoMax(m, i, categoryIDs) ==
    IF ~Has(m, Sprintf("categoryId", i, "")) THEN Ok(categoryIDs)
    ELSE LET cID == m[Sprintf("categoryId", i, "")] IN
         IF validateCategoryID(cID) # nil THEN Fail(validateCategoryID(cID))
         ELSE categoryIDLoopNoMax(m, i + 1, Append(categoryIDs, cID))

\* The loop of processCategoryIDs over categoryId(0), categoryId(1), ...
RECURSIVE categoryIDLoop(_, _, _)
categoryIDLoop(m, i, categoryIDs) ==
    IF ~Has(m, Sprintf("categoryId", i, "")) THEN Ok(categoryIDs)
    ELSE LET cID == m[Sprintf("categoryId", i, "")] IN
         IF validateCategoryID(cID) # nil THEN Fail(validateCategoryID(cID))
         ELSE IF Len(categoryIDs) + 1 > maxCategoryIDs THEN Fail("ErrMaxCategoryIDs")
         ELSE categoryIDLoop(m, i + 1, Append(categoryIDs, cID))

\* processCategoryIDs with the bare key winning over categoryId(0).
processCategoryIDsBareWins(m) ==
    IF Has(m, "categoryId")
    THEN IF validateCategoryID(m["categoryId"]) # nil
         THEN Fail(validateCategoryID(m["categoryId"]))
         ELSE Ok(<<m["categoryId"]>>)
    ELSE categoryIDLoop(m, 0, <<>>)

processCategoryIDs(m) ==
    IF Has(m, "categoryId") /\ Has(m, "categoryId(0)") THEN Fail("ErrInvalidIndexSyntax")
    ELSE IF Has(m, "categoryId")
    THEN IF validateCategoryID(m["categoryId"]) # nil
         THEN Fail(validateCategoryID(m["categoryId"]))
         ELSE Ok(<<m["categoryId"]>>)
    ELSE categoryIDLoop(m, 0, <<>>)

\* Two neighbouring stretches of a string, each with its fields f and with
\* whether its first and its last character are outside the separators:
\* the last field of l and the first of r are one field when l ends and r
\* begins outside the separators.
mergeFields(l, r) ==
    [open |-> l.open, close |-> r.close,
     f |-> IF l.close /\ r.open
           THEN SubSeq(l.f, 1, Len(l.f) - 1) \o <<l.f[Len(l.f)] \o r.f[1]>> \o Tail(r.f)
           ELSE l.f \o r.f]

\* The fields of the characters lo..hi of s, lo <= hi, by halves.
RECURSIVE fieldsBetween(_, _, _, _)
fieldsBetween(s, seps, lo, hi) ==
    IF lo = hi
    THEN IF Char(s, lo) \in seps THEN [open |-> FALSE, close |-> FALSE, f |-> <<>>]
         ELSE [open |-> TRUE, close |-> TRUE, f |-> <<Char(s, lo)>>]
    ELSE mergeFields(fieldsBetween(s, seps, lo, (lo + hi) \div 2),
                     fieldsBetween(s, seps, (lo + hi) \div 2 + 1, hi))

\* strings.FieldsFunc: the maximal runs of characters that are not separators.
FieldsFunc(s, seps) == IF s = "" THEN <<>> ELSE fieldsBetween(s, seps, 1, Len(s)).f

specialChars == {" ", ",", "(", ")", "\"", "-", "*", "@", "+"}

\* splitKeywords splitting on spaces only.
splitKeywordsOnSpaces(keywords) == FieldsFunc(keywords, {" "})

splitKeywords(keywords) == FieldsFunc(keywords, specialChars)

processKeywords(m) ==
    IF ~Has(m, "keywords") THEN Fail("ErrKeywordsMissing")
    ELSE LET keywords == m["keywords"] IN
         IF Len(keywords) < minKeywordsLen \/ Len(keywords) > maxKeywordsLen
         THEN Fail("ErrInvalidKeywordsLength")
         ELSE IF \E j \in 1..Len(splitKeywords(keywords)) :
                     Len(splitKeywords(keywords)[j]) > maxKeywordLen
         THEN Fail("ErrInvalidKeywordLength")
         ELSE Ok(keywords)

\* int(r - '0') for a character r; isDigit holds of it exactly for '0'..'9'.
RuneDigit(c) == IF c \in Digits THEN DigitVal(c) ELSE 0 - 1

isDigit(digit) == digit >= 0 /\ digit <= 9

\* The loop of the 10-character branch of isValidISBN with X standing for 10
\* at every position.
RECURSIVE isbn10LoopAnyX(_, _, _, _)
isbn10LoopAnyX(s, i, acc, sum) ==
    IF i > Len(s) THEN <<TRUE, sum>>
    ELSE LET d == RuneDigit(Char(s, i)) IN
         IF ~isDigit(d) /\ ~(Char(s, i) = "X") THEN <<FALSE, 0>>
         ELSE LET digit == IF isDigit(d) THEN d ELSE 10 IN
              isbn10LoopAnyX(s, i + 1, acc + digit, sum + acc + digit)

\* The loop of the 10-character branch of isValidISBN from character i on:
\* <<ok, sum>> with the running acc and sum.
RECURSIVE isbn10Loop(_, _, _, _)
isbn10Loop(s, i, acc, sum) ==
    IF i > Len(s) THEN <<TRUE, sum>>
    ELSE LET d == RuneDigit(Char(s, i)) IN
         IF ~isDigit(d) /\ ~(i - 1 = 9 /\ Char(s, i) = "X") THEN <<FALSE, 0>>
         ELSE LET digit == IF isDigit(d) THEN d ELSE 10 IN
              isbn10Loop(s, i + 1, acc + digit, sum + acc + digit)

\* The loops of isValidISBN (13 characters) and isValidEAN over the characters
\* i.. of s: the digit at Go index j counts three times when j % 2 = 0 and
\* tripled = "even", or j % 2 # 0 and tripled = "odd", and once otherwise.
\* <<ok, sum>>, ok false at the first character that is no digit.
RECURSIVE weightedLoop(_, _, _, _)
weightedLoop(s, i, tripled, sum) ==
    IF i > Len(s) THEN <<TRUE, sum>>
    ELSE LET d == RuneDigit(Char(s, i))
             triple == \/ tripled = "even" /\ (i - 1) % 2 = 0
                       \/ tripled = "odd" /\ (i - 1) % 2 # 0
         IN  IF ~isDigit(d) THEN <<FALSE, 0>>
             ELSE weightedLoop(s, i + 1, tripled, sum + (IF triple THEN 3 * d ELSE d))

isValidISBN(isbn) ==
    IF Len(isbn) = isbnShortLen
    THEN isbn10Loop(isbn, 1, 0, 0)[1] /\ isbn10Loop(isbn, 1, 0, 0)[2] % 11 = 0
    ELSE weightedLoop(isbn, 1, "odd", 0)[1] /\ weightedLoop(isbn, 1, "odd", 0)[2] % 10 = 0

\* isValidEAN with the digits at even indices tripled for every length.
isValidEANEvenTripled(ean) ==
    LET r == weightedLoop(SubSeq(ean, 1, Len(ean) - 1), 1, "even", 0)
        checkDigit == RuneDigit(Char(ean, Len(ean)))
    IN  r[1] /\ isDigit(checkDigit) /\ (r[2] + checkDigit) % 10 = 0

isValidEAN(ean) ==
    LET tripled == IF Len(ean) = eanShortLen \/ Len(ean) = upcLen THEN "even"
                   ELSE IF Len(ean) = eanLongLen THEN "odd"
                   ELSE "none"
        r == weightedLoop(SubSeq(ean, 1, Len(ean) - 1), 1, tripled, 0)
        checkDigit == RuneDigit(Char(ean, Len(ean)))
    IN  r[1] /\ isDigit(checkDigit) /\ (r[2] + checkDigit) % 10 = 0

processProductID(idType, value) ==
    CASE idType = "ReferenceID" ->
            IF Len(value) < 1 THEN "ErrInvalidProductIDLength" ELSE nil
      [] idType = "ISBN" ->
            IF Len(value) # isbnShortLen /\ Len(value) # isbnLongLen THEN "ErrInvalidISBNLength"
            ELSE IF ~isValidISBN(value) THEN "ErrInvalidISBN"
            ELSE nil
      [] idType = "UPC" ->
            IF Len(value) # upcLen THEN "ErrInvalidUPCLength"
            ELSE IF ~isValidEAN(value) THEN "ErrInvalidUPC"
            ELSE nil
      [] idType = "EAN" ->
            IF Len(value) # eanShortLen /\ Len(value) # eanLongLen THEN "ErrInvalidEANLength"
            ELSE IF ~isValidEAN(value) THEN "ErrInvalidEAN"
            ELSE nil
      [] OTHER -> "ErrUnsupportedProductIDType"

\* strings.Contains
ContainsStr(s, sub) ==
    \E i \in 1..(Len(s) - Len(sub) + 1) : SubSeq(s, i, i + Len(sub) - 1) = sub

validateStoreName(storeName) ==
    IF storeName = "" THEN "ErrInvalidStoreNameLength"
    ELSE IF ContainsStr(storeName, "&") /\ ~ContainsStr(storeName, "&amp;")
    THEN "ErrInvalidStoreNameAmpersand"
    ELSE nil

\* ------------------------------------------------------------------------
\* Shared optional fields
\* ------------------------------------------------------------------------

validGlobalIDs ==
    <<"EBAY-AT", "EBAY-AU", "EBAY-CH", "EBAY-DE", "EBAY-ENCA", "EBAY-ES", "EBAY-FR",
      "EBAY-FRBE", "EBAY-FRCA", "EBAY-GB", "EBAY-HK", "EBAY-IE", "EBAY-IN", "EBAY-IT",
      "EBAY-MOTOR", "EBAY-MY", "EBAY-NL", "EBAY-NLBE", "EBAY-PH", "EBAY-PL", "EBAY-SG",
      "EBAY-US">>

validateGlobalID(globalID) ==
    IF ~Contains(validGlobalIDs, globalID) THEN "ErrInvalidGlobalID" ELSE nil

validOutputSelectors ==
    <<"AspectHistogram", "CategoryHistogram", "ConditionHistogram", "GalleryInfo",
      "PictureURLLarge", "PictureURLSuperSize", "SellerInfo", "StoreInfo", "UnitPriceInfo">>

\* The loop of processOutputSelectors over outputSelector(0), outputSelector(1), ...
RECURSIVE outputSelectorLoop(_, _, _)
outputSelectorLoop(m, i, os) ==
    IF ~Has(m, Sprintf("outputSelector", i, "")) THEN Ok(os)
    ELSE IF ~Contains(validOutputSelectors, m[Sprintf("outputSelector", i, "")])
    THEN Fail("ErrInvalidOutputSelector")
    ELSE outputSelectorLoop(m, i + 1, Append(os, m[Sprintf("outputSelector", i, "")]))

processOutputSelectors(m) ==
    IF Has(m, "outputSelector") /\ Has(m, "outputSelector(0)") THEN Fail("ErrInvalidIndexSyntax")
    ELSE IF Has(m, "outputSelector")
    THEN IF ~Contains(validOutputSelectors, m["outputSelector"])
         THEN Fail("ErrInvalidOutputSelector")
         ELSE Ok(<<m["outputSelector"]>>)
    ELSE outputSelectorLoop(m, 0, <<>>)

maxCustomIDLen == 256

beFreeID == 2

ebayPartnerNetworkID == 9

maxCampIDLen == 10

validateTrackingID(trackingID) ==
    IF AtoiErr(trackingID) THEN "ErrInvalidTrackingID"
    ELSE IF Len(trackingID) # maxCampIDLen THEN "ErrInvalidCampaignID"
    ELSE nil

Opt(m, k) == IF Has(m, k) THEN Some(m[k]) ELSE None

processAffiliate(m) ==
    LET nOk == Has(m, "affiliate.networkId")
        tOk == Has(m, "affiliate.trackingId")
        aff == [customID |-> Opt(m, "affiliate.customId"),
                geoTargeting |-> Opt(m, "affiliate.geoTargeting"),
                networkID |-> None, trackingID |-> None]
    IN  IF Has(m, "affiliate.customId") /\ Len(m["affiliate.customId"]) > maxCustomIDLen
        THEN Fail("ErrInvalidCustomIDLength")
        ELSE IF Has(m, "affiliate.geoTargeting")
                /\ m["affiliate.geoTargeting"] \notin {"true", "false"}
        THEN Fail("ErrInvalidBooleanValue")
        ELSE IF nOk # tOk THEN Fail("ErrIncompleteAffiliateParams")
        ELSE IF ~nOk THEN Ok(aff)
        ELSE IF AtoiErr(m["affiliate.networkId"]) THEN Fail("ErrInvalidNetworkID")
        ELSE IF Atoi(m["affiliate.networkId"]) < beFreeID
                \/ Atoi(m["affiliate.networkId"]) > ebayPartnerNetworkID
        THEN Fail("ErrInvalidNetworkIDRange")
        ELSE IF Atoi(m["affiliate.networkId"]) = ebayPartnerNetworkID
                /\ validateTrackingID(m["affiliate.trackingId"]) # nil
        THEN Fail(validateTrackingID(m["affiliate.trackingId"]))
        ELSE Ok([aff EXCEPT !.networkID = Some(m["affiliate.networkId"]),
                            !.trackingID = Some(m["affiliate.trackingId"])])

minPostalCodeLen == 3

isValidPostalCode(postalCode) == Len(postalCode) >= minPostalCodeLen

minPaginationValue == 1

maxPaginationValue == 100

processPaginationInput(m) ==
    LET eOk == Has(m, "paginationInput.entriesPerPage")
        pOk == Has(m, "paginationInput.pageNumber")
    IN  IF eOk /\ AtoiErr(m["paginationInput.entriesPerPage"])
        THEN Fail("ErrInvalidEntriesPerPage")
        ELSE IF eOk /\ (\/ Atoi(m["paginationInput.entriesPerPage"]) < minPaginationValue
                        \/ Atoi(m["paginationInput.entriesPerPage"]) > maxPaginationValue)
        THEN Fail("ErrInvalidEntriesPerPageRange")
        ELSE IF pOk /\ AtoiErr(m["paginationInput.pageNumber"])
        THEN Fail("ErrInvalidPageNumber")
        ELSE IF pOk /\ (\/ Atoi(m["paginationInput.pageNumber"]) < minPaginationValue
                        \/ Atoi(m["paginationInput.pageNumber"]) > maxPaginationValue)
        THEN Fail("ErrInvalidPageNumberRange")
        ELSE Ok([entriesPerPage |-> Opt(m, "paginationInput.entriesPerPage"),
                 pageNumber |-> Opt(m, "paginationInput.pageNumber")])

\* validateSortOrder with AuctionWithBIN counting as an auction listing.
validateSortOrderAnyAuction(sortOrder, itemFilters, hasBuyerPostalCode) ==
    CASE sortOrder \in {"BestMatch", "CountryAscending", "CountryDescending",
                        "CurrentPriceHighest", "EndTimeSoonest", "PricePlusShippingHighest",
                        "PricePlusShippingLowest", "StartTimeNewest", "WatchCountDecreaseSort"} ->
            nil
      [] sortOrder \in {"BidCountFewest", "BidCountMost"} ->
            IF ~\E i \in 1..Len(itemFilters) :
                    /\ itemFilters[i].name = "ListingType"
                    /\ \/ Contains(itemFilters[i].values, "Auction")
                       \/ Contains(itemFilters[i].values, "AuctionWithBIN")
            THEN "ErrAuctionListingMissing"
            ELSE nil
      [] sortOrder = "DistanceNearest" ->
            IF ~hasBuyerPostalCode THEN "ErrBuyerPostalCodeMissing" ELSE nil
      [] OTHER -> "ErrUnsupportedSortOrderType"

validateSortOrder(sortOrder, itemFilters, hasBuyerPostalCode) ==
    CASE sortOrder \in {"BestMatch", "CountryAscending", "CountryDescending",
                        "CurrentPriceHighest", "EndTimeSoonest", "PricePlusShippingHighest",
                        "PricePlusShippingLowest", "StartTimeNewest", "WatchCountDecreaseSort"} ->
            nil
      [] sortOrder \in {"BidCountFewest", "BidCountMost"} ->
            IF ~\E i \in 1..Len(itemFilters) :
                    itemFilters[i].name = "ListingType" /\ Contains(itemFilters[i].values, "Auction")
            THEN "ErrAuctionListingMissing"
            ELSE nil
      [] sortOrder = "DistanceNearest" ->
            IF ~hasBuyerPostalCode THEN "ErrBuyerPostalCodeMissing" ELSE nil
      [] OTHER -> "ErrUnsupportedSortOrderType"

\* ------------------------------------------------------------------------
\* Filter parser (filter.go)
\* ------------------------------------------------------------------------

\* The number of consecutive keys pre(0)suf, pre(1)suf, ... present from i on:
\* the index at which the loops "for i := 0; ; i++ { ...; if !ok { break } }" stop.
RECURSIVE ScanEnd(_, _, _, _)
ScanEnd(m, pre, suf, i) ==
    IF Has(m, Sprintf(pre, i, suf)) THEN ScanEnd(m, pre, suf, i + 1) ELSE i

\* parseFilterValues with the numbered values read from index 1 when there is
\* none at index 0.
parseFilterValuesFromOne(m, filterAttr) ==
    LET from == IF Has(m, filterAttr \o "(0)") THEN 0 ELSE 1
        n == ScanEnd(m, filterAttr, "", from)
        numbered == [i \in 1..(n - from) |-> m[Sprintf(filterAttr, from + i - 1, "")]]
        filterValues == IF Has(m, filterAttr) THEN Append(numbered, m[filterAttr]) ELSE numbered
    IN  IF Len(filterValues) = 0 THEN Fail("ErrIncompleteFilterNameOnly")
        ELSE IF Has(m, filterAttr) /\ Has(m, filterAttr \o "(0)") THEN Fail("ErrInvalidIndexSyntax")
        ELSE Ok(filterValues)

parseFilterValues(m, filterAttr) ==
    LET n == ScanEnd(m, filterAttr, "", 0)
        numbered == [i \in 1..n |-> m[Sprintf(filterAttr, i - 1, "")]]
        filterValues == IF Has(m, filterAttr) THEN Append(numbered, m[filterAttr]) ELSE numbered
    IN  IF Len(filterValues) = 0 THEN Fail("ErrIncompleteFilterNameOnly")
        ELSE IF Has(m, filterAttr) /\ Has(m, filterAttr \o "(0)") THEN Fail("ErrInvalidIndexSyntax")
        ELSE Ok(filterValues)

processNonNumberedAspectFilter(m) ==
    LET v == parseFilterValues(m, "aspectFilter.aspectValueName") IN
    IF v.err # nil THEN Fail(v.err)
    ELSE Ok(<<[aspectName |-> m["aspectFilter.aspectName"], aspectValueNames |-> v.val]>>)

RECURSIVE numberedAspectFilterLoop(_, _, _)
numberedAspectFilterLoop(m, i, aspectFilters) ==
    IF ~Has(m, Sprintf("aspectFilter", i, ".aspectName")) THEN Ok(aspectFilters)
    ELSE LET v == parseFilterValues(m, Sprintf("aspectFilter", i, ".aspectValueName")) IN
         IF v.err # nil THEN Fail(v.err)
         ELSE numberedAspectFilterLoop(m, i + 1,
                  Append(aspectFilters,
                         [aspectName |-> m[Sprintf("aspectFilter", i, ".aspectName")],
                          aspectValueNames |-> v.val]))

processNumberedAspectFilters(m) == numberedAspectFilterLoop(m, 0, <<>>)

processAspectFilters(m) ==
    IF Has(m, "aspectFilter.aspectName") /\ Has(m, "aspectFilter(0).aspectName")
    THEN Fail("ErrInvalidIndexSyntax")
    ELSE IF Has(m, "aspectFilter.aspectName") THEN processNonNumberedAspectFilter(m)
    ELSE processNumberedAspectFilters(m)

maxExcludeCategories == 25

maxExcludeSellers == 100

maxLocatedIns == 25

maxSellers == 100

smallestMaxDistance == 5

validCurrencyIDs ==
    <<"AUD", "CAD", "CHF", "CNY", "EUR", "GBP", "HKD", "INR", "MYR", "PHP", "PLN", "SEK",
      "SGD", "TWD", "USD">>

UpperLetters ==
    {"A", "B", "C", "D", "E", "F", "G", "H", "I", "J", "K", "L", "M", "N", "O", "P", "Q",
     "R", "S", "T", "U", "V", "W", "X", "Y", "Z"}

countryCodeLen == 2

isValidCountryCode(value) ==
    Len(value) = countryCodeLen /\ \A i \in 1..Len(value) : Char(value, i) \in UpperLetters

validConditionIDs ==
    <<1000, 1500, 1750, 2000, 2010, 2020, 2030, 2500, 2750, 3000, 4000, 5000, 6000, 7000>>

isValidCondition(value) ==
    IF ~AtoiErr(value) THEN Contains(validConditionIDs, Atoi(value)) ELSE TRUE

DaysIn(year, month) ==
    IF month \in {4, 6, 9, 11} THEN 30
    ELSE IF month # 2 THEN 31
    ELSE IF year % 4 = 0 /\ (year % 100 # 0 \/ year % 400 = 0) THEN 29
    ELSE 28

\* The literals time.Parse(time.RFC3339, value) is modelled on: those of the
\* shape YYYY-MM-DDTHH:MM:SS followed by Z or by a numeric offset +hh:mm or
\* -hh:mm.
rfc3339Shape(value) ==
    /\ Len(value) \in {20, 25}
    /\ AllDigits(SubSeq(value, 1, 4)) /\ Char(value, 5) = "-"
    /\ AllDigits(SubSeq(value, 6, 7)) /\ Char(value, 8) = "-"
    /\ AllDigits(SubSeq(value, 9, 10)) /\ Char(value, 11) = "T"
    /\ AllDigits(SubSeq(value, 12, 13)) /\ Char(value, 14) = ":"
    /\ AllDigits(SubSeq(value, 15, 16)) /\ Char(value, 17) = ":"
    /\ AllDigits(SubSeq(value, 18, 19))
    /\ \/ Len(value) = 20 /\ Char(value, 20) = "Z"
       \/ /\ Len(value) = 25 /\ Char(value, 20) \in {"+", "-"}
          /\ AllDigits(SubSeq(value, 21, 22)) /\ Char(value, 23) = ":"
          /\ AllDigits(SubSeq(value, 24, 25))
          /\ NatVal(SubSeq(value, 21, 22)) <= 23
          /\ NatVal(SubSeq(value, 24, 25)) <= 59

\* The fields <<year, month, day, hour, minute, second>> of such a literal.
rfc3339Fields(value) ==
    <<NatVal(SubSeq(value, 1, 4)), NatVal(SubSeq(value, 6, 7)),
      NatVal(SubSeq(value, 9, 10)), NatVal(SubSeq(value, 12, 13)),
      NatVal(SubSeq(value, 15, 16)), NatVal(SubSeq(value, 18, 19))>>

\* The result of time.Parse for fields t: an error when a field is out of
\* range, else the fields as written and whether Location() is time.UTC.
rfc3339Time(t, utc) ==
    IF t[2] \in 1..12 /\ t[3] \in 1..DaysIn(t[1], t[2])
       /\ t[4] <= 23 /\ t[5] <= 59 /\ t[6] <= 59
    THEN [err |-> FALSE, t |-> t, utc |-> utc]
    ELSE [err |-> TRUE, t |-> <<0, 0, 0, 0, 0, 0>>, utc |-> FALSE]

\* time.Parse(time.RFC3339, value): Location() is time.UTC exactly for Z.
parseRFC3339(value) ==
    IF rfc3339Shape(value) THEN rfc3339Time(rfc3339Fields(value), Len(value) = 20)
    ELSE [err |-> TRUE, t |-> <<0, 0, 0, 0, 0, 0>>, utc |-> FALSE]

\* Time.Before on two UTC instants given by their fields.
RECURSIVE TimeBefore(_, _)
TimeBefore(a, b) ==
    IF Len(a) = 0 THEN FALSE
    ELSE Head(a) < Head(b) \/ (Head(a) = Head(b) /\ TimeBefore(Tail(a), Tail(b)))

\* isValidDateTime once time.Parse has returned dateTime.
dateTimeInRange(dateTime, future, clock) ==
    IF dateTime.err THEN FALSE
    ELSE IF ~dateTime.utc THEN FALSE
    ELSE IF future /\ TimeBefore(dateTime.t, clock) THEN FALSE
    ELSE IF ~future /\ TimeBefore(clock, dateTime.t) THEN FALSE
    ELSE TRUE

isValidDateTime(value, future, clock) == dateTimeInRange(parseRFC3339(value), future, clock)

isValidIntegerInRange(value, min) == ~AtoiErr(value) /\ Atoi(value) >= min

validateExcludeCategories(values) ==
    IF Len(values) > maxExcludeCategories THEN "ErrMaxExcludeCategories"
    ELSE IF \E i \in 1..Len(values) : ~isValidIntegerInRange(values[i], 0) THEN "ErrInvalidInteger"
    ELSE nil

\* HasFilterNamed looking at the first filter of the list only.
HasFilterNamedAtHead(itemFilters, names) ==
    Len(itemFilters) > 0 /\ itemFilters[1].name \in names

HasFilterNamed(itemFilters, names) ==
    \E i \in 1..Len(itemFilters) : itemFilters[i].name \in names

validateExcludeSellers(values, itemFilters) ==
    IF Len(values) > maxExcludeSellers THEN "ErrMaxExcludeSellers"
    ELSE IF HasFilterNamed(itemFilters, {"Seller", "TopRatedSellerOnly"})
    THEN "ErrExcludeSellerCannotBeUsedWithSellers"
    ELSE nil

\* The index of the last filter of the list with the given name, 0 when none:
\* the one whose value the loop of validateNumericFilter leaves in its variable.
LastNamed(itemFilters, name) ==
    IF HasFilterNamed(itemFilters, {name})
    THEN CHOOSE i \in 1..Len(itemFilters) :
            /\ itemFilters[i].name = name
            /\ \A j \in (i + 1)..Len(itemFilters) : itemFilters[j].name # name
    ELSE 0

validateNumericFilter(filter, itemFilters, minAllowedValue, filterA, filterB) ==
    LET unparsable == {i \in 1..Len(itemFilters) :
                          /\ itemFilters[i].name \in {filterA, filterB}
                          /\ AtoiErr(itemFilters[i].values[1])}
        a == LastNamed(itemFilters, filterA)
        b == LastNamed(itemFilters, filterB)
    IN  IF AtoiErr(filter.values[1]) THEN "ErrInvalidInteger"
        ELSE IF minAllowedValue > Atoi(filter.values[1]) THEN "ErrInvalidInteger"
        ELSE IF unparsable # {} THEN "ErrInvalidInteger"
        ELSE IF a # 0 /\ b # 0
                /\ Atoi(itemFilters[b].values[1]) > Atoi(itemFilters[a].values[1])
        THEN "ErrInvalidNumericFilter"
        ELSE nil

validListingTypes ==
    <<"Auction", "AuctionWithBIN", "Classified", "FixedPrice", "StoreInventory", "All">>

\* The loop of validateListingTypes with All rejected only when it is not the
\* first value.
RECURSIVE listingTypeLoopAllFirst(_, _, _)
listingTypeLoopAllFirst(values, i, seenTypes) ==
    IF i > Len(values) THEN nil
    ELSE LET v == values[i] IN
         IF v = "All" /\ i > 1 THEN "ErrInvalidAllListingType"
         ELSE IF ~Contains(validListingTypes, v) THEN "ErrInvalidListingType"
         ELSE IF v \in seenTypes THEN "ErrDuplicateListingType"
         ELSE IF {"Auction", "AuctionWithBIN"} \subseteq (seenTypes \cup {v})
         THEN "ErrInvalidAuctionListingTypes"
         ELSE listingTypeLoopAllFirst(values, i + 1, seenTypes \cup {v})

\* The loop of validateListingTypes from values[i] on, with the types seen so far.
RECURSIVE listingTypeLoop(_, _, _)
listingTypeLoop(values, i, seenTypes) ==
    IF i > Len(values) THEN nil
    ELSE LET v == values[i] IN
         IF v = "All" /\ Len(values) > 1 THEN "ErrInvalidAllListingType"
         ELSE IF ~Contains(validListingTypes, v) THEN "ErrInvalidListingType"
         ELSE IF v \in seenTypes THEN "ErrDuplicateListingType"
         ELSE IF {"Auction", "AuctionWithBIN"} \subseteq (seenTypes \cup {v})
         THEN "ErrInvalidAuctionListingTypes"
         ELSE listingTypeLoop(values, i + 1, seenTypes \cup {v})

validateListingTypes(values) == listingTypeLoop(values, 1, {})

\* validateLocalSearchOnly without the search for a MaxDistance filter.
validateLocalSearchOnlyNoDistance(values, itemFilters, m) ==
    IF ~Has(m, "buyerPostalCode") THEN "ErrBuyerPostalCodeMissing"
    ELSE IF values[1] # "true" /\ values[1] # "false" THEN "ErrInvalidBooleanValue"
    ELSE nil

validateLocalSearchOnly(values, itemFilters, m) ==
    IF ~Has(m, "buyerPostalCode") THEN "ErrBuyerPostalCodeMissing"
    ELSE IF ~HasFilterNamed(itemFilters, {"MaxDistance"}) THEN "ErrMaxDistanceMissing"
    ELSE IF values[1] # "true" /\ values[1] # "false" THEN "ErrInvalidBooleanValue"
    ELSE nil

validateLocatedIns(values) ==
    IF Len(values) > maxLocatedIns THEN "ErrMaxLocatedIns"
    ELSE IF \E i \in 1..Len(values) : ~isValidCountryCode(values[i]) THEN "ErrInvalidCountryCode"
    ELSE nil

\* parsePrice once strconv.ParseFloat has returned price.
parsedPrice(filter, price) ==
    IF price.err THEN [err |-> "ErrInvalidPrice", price |-> FloatZero]
    ELSE IF FloatLess(price, FloatZero) THEN [err |-> "ErrInvalidPrice", price |-> FloatZero]
    ELSE IF filter.paramName # None /\ filter.paramName[1] # "Currency"
    THEN [err |-> "ErrInvalidPriceParamName", price |-> FloatZero]
    ELSE IF filter.paramValue # None /\ ~Contains(validCurrencyIDs, filter.paramValue[1])
    THEN [err |-> "ErrInvalidCurrencyID", price |-> FloatZero]
    ELSE [err |-> nil, price |-> price]

parsePrice(filter) == parsedPrice(filter, ParseFloat(filter.values[1]))

\* The error e if there is one, else what follows.
OrElse(e, next) == IF e # nil THEN e ELSE next

\* One turn of the loop of validatePriceRange at a related filter whose price
\* parsed as related.
relatedPriceErr(name, price, related) ==
    IF related.err # nil THEN related.err
    ELSE IF \/ name = "MaxPrice" /\ FloatLess(price, related.price)
            \/ name = "MinPrice" /\ FloatLess(related.price, price)
    THEN "ErrInvalidMaxPrice"
    ELSE nil

\* The loop of validatePriceRange from itemFilters[i] on.
RECURSIVE priceRangeLoop(_, _, _, _, _)
priceRangeLoop(name, price, relatedFilterName, itemFilters, i) ==
    IF i > Len(itemFilters) THEN nil
    ELSE IF itemFilters[i].name # relatedFilterName
    THEN priceRangeLoop(name, price, relatedFilterName, itemFilters, i + 1)
    ELSE OrElse(relatedPriceErr(name, price, parsePrice(itemFilters[i])),
                priceRangeLoop(name, price, relatedFilterName, itemFilters, i + 1))

\* validatePriceRange once parsePrice(filter) has returned p.
priceRange(filter, p, itemFilters) ==
    IF p.err # nil THEN p.err
    ELSE priceRangeLoop(filter.name, p.price,
                        IF filter.name = "MaxPrice" THEN "MinPrice" ELSE "MaxPrice",
                        itemFilters, 1)

validatePriceRange(filter, itemFilters) == priceRange(filter, parsePrice(filter), itemFilters)

validateSellers(values, itemFilters) ==
    IF Len(values) > maxSellers THEN "ErrMaxSellers"
    ELSE IF HasFilterNamed(itemFilters, {"ExcludeSeller", "TopRatedSellerOnly"})
    THEN "ErrSellerCannotBeUsedWithOtherSellers"
    ELSE nil

validateSellerBusinessType(values) ==
    IF Len(values) > 1 THEN "ErrMultipleSellerBusinessTypes"
    ELSE IF values[1] # "Business" /\ values[1] # "Private" THEN "ErrInvalidSellerBusinessType"
    ELSE nil

validateTopRatedSellerOnly(value, itemFilters) ==
    IF value # "true" /\ value # "false" THEN "ErrInvalidBooleanValue"
    ELSE IF HasFilterNamed(itemFilters, {"Seller", "ExcludeSeller"})
    THEN "ErrTopRatedSellerCannotBeUsedWithSellers"
    ELSE nil

handleItemFilterType(filter, itemFilters, m, clock) ==
    CASE filter.name \in {"AuthorizedSellerOnly", "BestOfferOnly", "CharityOnly",
                          "ExcludeAutoPay", "FreeShippingOnly", "HideDuplicateItems",
                          "LocalPickupOnly", "LotsOnly", "ReturnsAcceptedOnly",
                          "SoldItemsOnly"} ->
            IF filter.values[1] # "true" /\ filter.values[1] # "false"
            THEN "ErrInvalidBooleanValue" ELSE nil
      [] filter.name = "AvailableTo" ->
            IF ~isValidCountryCode(filter.values[1]) THEN "ErrInvalidCountryCode" ELSE nil
      [] filter.name = "Condition" ->
            IF ~isValidCondition(filter.values[1]) THEN "ErrInvalidCondition" ELSE nil
      [] filter.name = "Currency" ->
            IF ~Contains(validCurrencyIDs, filter.values[1]) THEN "ErrInvalidCurrencyID" ELSE nil
      [] filter.name \in {"EndTimeFrom", "EndTimeTo", "StartTimeFrom", "StartTimeTo"} ->
            IF ~isValidDateTime(filter.values[1], TRUE, clock) THEN "ErrInvalidDateTime" ELSE nil
      [] filter.name = "ExcludeCategory" -> validateExcludeCategories(filter.values)
      [] filter.name = "ExcludeSeller" -> validateExcludeSellers(filter.values, itemFilters)
      [] filter.name = "ExpeditedShippingType" ->
            IF filter.values[1] # "Expedited" /\ filter.values[1] # "OneDayShipping"
            THEN "ErrInvalidExpeditedShippingType" ELSE nil
      [] filter.name \in {"FeedbackScoreMax", "FeedbackScoreMin"} ->
            validateNumericFilter(filter, itemFilters, 0, "FeedbackScoreMax", "FeedbackScoreMin")
      [] filter.name = "ListedIn" -> validateGlobalID(filter.values[1])
      [] filter.name = "ListingType" -> validateListingTypes(filter.values)
      [] filter.name = "LocalSearchOnly" ->
            validateLocalSearchOnly(filter.values, itemFilters, m)
      [] filter.name = "LocatedIn" -> validateLocatedIns(filter.values)
      [] filter.name \in {"MaxBids", "MinBids"} ->
            validateNumericFilter(filter, itemFilters, 0, "MaxBids", "MinBids")
      [] filter.name = "MaxDistance" ->
            IF ~Has(m, "buyerPostalCode") THEN "ErrBuyerPostalCodeMissing"
            ELSE IF ~isValidIntegerInRange(filter.values[1], smallestMaxDistance)
            THEN "ErrInvalidInteger"
            ELSE nil
      [] filter.name = "MaxHandlingTime" ->
            IF ~isValidIntegerInRange(filter.values[1], 1) THEN "ErrInvalidInteger" ELSE nil
      [] filter.name \in {"MaxPrice", "MinPrice"} -> validatePriceRange(filter, itemFilters)
      [] filter.name \in {"MaxQuantity", "MinQuantity"} ->
            validateNumericFilter(filter, itemFilters, 1, "MaxQuantity", "MinQuantity")
      [] filter.name = "ModTimeFrom" ->
            IF ~isValidDateTime(filter.values[1], FALSE, clock) THEN "ErrInvalidDateTime" ELSE nil
      [] filter.name = "Seller" -> validateSellers(filter.values, itemFilters)
      [] filter.name = "SellerBusinessType" -> validateSellerBusinessType(filter.values)
      [] filter.name = "TopRatedSellerOnly" ->
            validateTopRatedSellerOnly(filter.values[1], itemFilters)
      [] filter.name = "ValueBoxInventory" ->
            IF filter.values[1] # "1" /\ filter.values[1] # "0"
            THEN "ErrInvalidValueBoxInventory" ELSE nil
      [] OTHER -> "ErrUnsupportedItemFilterType"

\* The itemFilter built from a name and its values, with paramName and
\* paramValue set when the keys pnKey and pvKey are both present.
newItemFilter(name, values, m, pnKey, pvKey) ==
    [name |-> name, values |-> values,
     paramName |-> IF Has(m, pnKey) /\ Has(m, pvKey) THEN Some(m[pnKey]) ELSE None,
     paramValue |-> IF Has(m, pnKey) /\ Has(m, pvKey) THEN Some(m[pvKey]) ELSE None]

\* The end of processNonNumberedItemFilter: the check of the filter built.
handledItemFilter(filter, m, clock) ==
    ErrOr(handleItemFilterType(filter, <<>>, m, clock), <<filter>>)

\* processNonNumberedItemFilter once parseFilterValues has returned v.
nonNumberedItemFilter(m, clock, v) ==
    IF v.err # nil THEN Fail(v.err)
    ELSE IF Has(m, "itemFilter.paramName") # Has(m, "itemFilter.paramValue")
    THEN Fail("ErrIncompleteItemFilterParam")
    ELSE handledItemFilter(newItemFilter(m["itemFilter.name"], v.val, m,
                                         "itemFilter.paramName", "itemFilter.paramValue"),
                           m, clock)

processNonNumberedItemFilter(m, clock) ==
    nonNumberedItemFilter(m, clock, parseFilterValues(m, "itemFilter.value"))

RECURSIVE numberedItemFilterLoop(_, _, _)

\* One turn of the first loop of processNumberedItemFilters, at itemFilter(i),
\* once parseFilterValues has returned v.
numberedItemFilterAt(m, i, itemFilters, v) ==
    IF v.err # nil THEN Fail(v.err)
    ELSE IF Has(m, Sprintf("itemFilter", i, ".paramName"))
            # Has(m, Sprintf("itemFilter", i, ".paramValue"))
    THEN Fail("ErrIncompleteItemFilterParam")
    ELSE numberedItemFilterLoop(m, i + 1,
             Append(itemFilters,
                    newItemFilter(m[Sprintf("itemFilter", i, ".name")], v.val, m,
                                  Sprintf("itemFilter", i, ".paramName"),
                                  Sprintf("itemFilter", i, ".paramValue"))))

\* The first loop of processNumberedItemFilters, which collects itemFilter(0),
\* itemFilter(1), ... before any of them is checked.
numberedItemFilterLoop(m, i, itemFilters) ==
    IF ~Has(m, Sprintf("itemFilter", i, ".name")) THEN Ok(itemFilters)
    ELSE numberedItemFilterAt(m, i, itemFilters,
                              parseFilterValues(m, Sprintf("itemFilter", i, ".value")))

\* The second loop of processNumberedItemFilters, from itemFilters[i] on: the
\* first error of handleItemFilterType, nil if there is none.
RECURSIVE handleItemFiltersLoop(_, _, _, _)
handleItemFiltersLoop(itemFilters, i, m, clock) ==
    IF i > Len(itemFilters) THEN nil
    ELSE OrElse(handleItemFilterType(itemFilters[i], itemFilters, m, clock),
                handleItemFiltersLoop(itemFilters, i + 1, m, clock))

\* processNumberedItemFilters once its first loop has returned c.
numberedItemFilters(c, m, clock) ==
    IF c.err # nil THEN Fail(c.err)
    ELSE ErrOr(handleItemFiltersLoop(c.val, 1, m, clock), c.val)

\* processNumberedItemFilters with one loop, which checks the type of each
\* filter as soon as it has collected it.
RECURSIVE eagerItemFilterLoop(_, _, _, _)
eagerItemFilterLoop(m, i, itemFilters, clock) ==
    IF ~Has(m, Sprintf("itemFilter", i, ".name")) THEN Ok(itemFilters)
    ELSE LET v == parseFilterValues(m, Sprintf("itemFilter", i, ".value"))
         IN  IF v.err # nil THEN Fail(v.err)
             ELSE IF Has(m, Sprintf("itemFilter", i, ".paramName"))
                     # Has(m, Sprintf("itemFilter", i, ".paramValue"))
             THEN Fail("ErrIncompleteItemFilterParam")
             ELSE LET collected ==
                          Append(itemFilters,
                                 newItemFilter(m[Sprintf("itemFilter", i, ".name")], v.val, m,
                                               Sprintf("itemFilter", i, ".paramName"),
                                               Sprintf("itemFilter", i, ".paramValue")))
                      err == handleItemFilterType(collected[i + 1], collected, m, clock)
                  IN  IF err # nil THEN Fail(err)
                      ELSE eagerItemFilterLoop(m, i + 1, collected, clock)

processNumberedItemFiltersEager(m, clock) == eagerItemFilterLoop(m, 0, <<>>, clock)

processNumberedItemFilters(m, clock) ==
    numberedItemFilters(numberedItemFilterLoop(m, 0, <<>>), m, clock)

\* processItemFilters with the non-numbered filter winning over itemFilter(0).
processItemFiltersBareWins(m, clock) ==
    IF Has(m, "itemFilter.name") THEN processNonNumberedItemFilter(m, clock)
    ELSE processNumberedItemFilters(m, clock)

\* processItemFilters with itemFilter(1) conflicting with the non-numbered
\* filter as itemFilter(0) does.
processItemFiltersConflictWithOne(m, clock) ==
    IF Has(m, "itemFilter.name")
       /\ (Has(m, "itemFilter(0).name") \/ Has(m, "itemFilter(1).name"))
    THEN Fail("ErrInvalidIndexSyntax")
    ELSE IF Has(m, "itemFilter.name") THEN processNonNumberedItemFilter(m, clock)
    ELSE processNumberedItemFilters(m, clock)

processItemFilters(m, clock) ==
    IF Has(m, "itemFilter.name") /\ Has(m, "itemFilter(0).name") THEN Fail("ErrInvalidIndexSyntax")
    ELSE IF Has(m, "itemFilter.name") THEN processNonNumberedItemFilter(m, clock)
    ELSE processNumberedItemFilters(m, clock)

\* ------------------------------------------------------------------------
\* Operation parameters: validate
\* ------------------------------------------------------------------------

\* The zero value of the find...Params structs: one record with the fields of
\* all five, a field an operation lacks keeping its zero value.
zeroParams ==
    [globalID |-> None, aspectFilters |-> <<>>, categoryIDs |-> <<>>,
     descriptionSearch |-> None, itemFilters |-> <<>>, keywords |-> None,
     outputSelectors |-> <<>>, product |-> None, storeName |-> None,
     affiliate |-> None, buyerPostalCode |-> None, paginationInput |-> None,
     sortOrder |-> None]

\* The Global-ID step of every validate.
globalIDStep(m) ==
    IF Has(m, "Global-ID") THEN validateGlobalID(m["Global-ID"]) ELSE nil

\* The sort-order step, the last of every validate: fp0 holds the fields
\* assigned so far.
sortOrderStep(m, fp0) ==
    IF Has(m, "sortOrder")
    THEN ErrOr(validateSortOrder(m["sortOrder"], fp0.itemFilters, fp0.buyerPostalCode # None),
               [fp0 EXCEPT !.sortOrder = Some(m["sortOrder"])])
    ELSE Ok(fp0)

\* The pagination step, p being what processPaginationInput returned.
paginationStep(m, fp0, p) ==
    IF p.err # nil THEN Fail(p.err)
    ELSE sortOrderStep(m, [fp0 EXCEPT !.paginationInput = Some(p.val)])

\* The buyerPostalCode step.
postalCodeStep(m, fp0) ==
    IF Has(m, "buyerPostalCode") /\ ~isValidPostalCode(m["buyerPostalCode"])
    THEN Fail("ErrInvalidPostalCode")
    ELSE paginationStep(m, [fp0 EXCEPT !.buyerPostalCode = Opt(m, "buyerPostalCode")],
                        processPaginationInput(m))

\* The affiliate step with the postal code checked before the error of
\* processAffiliate is looked at.
affiliateStepPostalFirst(m, fp0, a) ==
    IF Has(m, "buyerPostalCode") /\ ~isValidPostalCode(m["buyerPostalCode"])
    THEN Fail("ErrInvalidPostalCode")
    ELSE IF a.err # nil THEN Fail(a.err)
    ELSE paginationStep(m, [fp0 EXCEPT !.affiliate = Some(a.val),
                                       !.buyerPostalCode = Opt(m, "buyerPostalCode")],
                        processPaginationInput(m))

\* The affiliate step, a being what processAffiliate returned.
affiliateStep(m, fp0, a) ==
    IF a.err # nil THEN Fail(a.err)
    ELSE postalCodeStep(m, [fp0 EXCEPT !.affiliate = Some(a.val)])

\* The output-selector step, o being what processOutputSelectors returned.
outputSelectorsStep(m, fp0, o) ==
    IF o.err # nil THEN Fail(o.err)
    ELSE affiliateStep(m, [fp0 EXCEPT !.outputSelectors = o.val], processAffiliate(m))

\* The item-filter step, f being what processItemFilters returned.
itemFiltersStep(m, fp0, f) ==
    IF f.err # nil THEN Fail(f.err)
    ELSE outputSelectorsStep(m, [fp0 EXCEPT !.itemFilters = f.val], processOutputSelectors(m))

\* The steps every validate ends with, from the item filters to the sort order.
itemFiltersToSortOrder(m, clock, fp0) ==
    itemFiltersStep(m, fp0, processItemFilters(m, clock))

\* The aspect-filter step, af being what processAspectFilters returned, then
\* the steps every validate ends with.
aspectFiltersStep(m, clock, fp0, af) ==
    IF af.err # nil THEN Fail(af.err)
    ELSE itemFiltersToSortOrder(m, clock, [fp0 EXCEPT !.aspectFilters = af.val])

\* The Global-ID step once validateGlobalID has returned e (nil when the
\* parameter is absent), then the aspect filters and the closing steps.
globalIDThen(m, clock, fp0, e) ==
    IF e # nil THEN Fail(e)
    ELSE aspectFiltersStep(m, clock, [fp0 EXCEPT !.globalID = Opt(m, "Global-ID")],
                           processAspectFilters(m))

\* The Global-ID and aspect-filter steps, then the steps every validate ends with.
globalIDToSortOrder(m, clock, fp0) == globalIDThen(m, clock, fp0, globalIDStep(m))

\* The category-ID step of findItemsByCategory, c being what processCategoryIDs
\* returned.
categoryIDsStep(m, clock, c) ==
    IF c.err # nil THEN Fail(c.err)
    ELSE globalIDToSortOrder(m, clock, [zeroParams EXCEPT !.categoryIDs = c.val])

\* validate of findItemsByCategory with the Global-ID checked before the
\* category IDs are looked for.
validateByCategoryGlobalIDFirst(m, clock) ==
    IF globalIDStep(m) # nil THEN Fail(globalIDStep(m))
    ELSE IF ~Has(m, "categoryId") /\ ~Has(m, "categoryId(0)") THEN Fail("ErrCategoryIDMissing")
    ELSE categoryIDsStep(m, clock, processCategoryIDs(m))

validateByCategory(m, clock) ==
    IF ~Has(m, "categoryId") /\ ~Has(m, "categoryId(0)") THEN Fail("ErrCategoryIDMissing")
    ELSE categoryIDsStep(m, clock, processCategoryIDs(m))

\* The keywords step of findItemsByKeywords, k being what processKeywords
\* returned.
keywordsStep(m, clock, k) ==
    IF k.err # nil THEN Fail(k.err)
    ELSE globalIDToSortOrder(m, clock, [zeroParams EXCEPT !.keywords = Some(k.val)])

validateByKeywords(m, clock) == keywordsStep(m, clock, processKeywords(m))

\* processCategoryIDs when a category ID key is present; no error and no IDs
\* otherwise.
optionalCategoryIDs(m) ==
    IF Has(m, "categoryId") \/ Has(m, "categoryId(0)") THEN processCategoryIDs(m) ELSE Ok(<<>>)

\* The error of processKeywords when keywords is present; nil otherwise.
optionalKeywords(m) == IF Has(m, "keywords") THEN processKeywords(m).err ELSE nil

\* The descriptionSearch step of findItemsAdvanced, then the closing steps.
advancedDescriptionSearch(m, clock, fp0) ==
    IF /\ Has(m, "descriptionSearch")
       /\ m["descriptionSearch"] # "true"
       /\ m["descriptionSearch"] # "false"
    THEN Fail("ErrInvalidBooleanValue")
    ELSE itemFiltersToSortOrder(m, clock,
             [fp0 EXCEPT !.descriptionSearch = Opt(m, "descriptionSearch")])

\* The aspect-filter step of findItemsAdvanced.
advancedAspectFilters(m, clock, fp0, af) ==
    IF af.err # nil THEN Fail(af.err)
    ELSE advancedDescriptionSearch(m, clock, [fp0 EXCEPT !.aspectFilters = af.val])

\* The Global-ID step of findItemsAdvanced, e being its error.
advancedGlobalID(m, clock, fp0, e) ==
    IF e # nil THEN Fail(e)
    ELSE advancedAspectFilters(m, clock, [fp0 EXCEPT !.globalID = Opt(m, "Global-ID")],
                               processAspectFilters(m))

\* The keywords step of findItemsAdvanced, e being its error.
advancedKeywords(m, clock, fp0, e) ==
    IF e # nil THEN Fail(e)
    ELSE advancedGlobalID(m, clock, [fp0 EXCEPT !.keywords = Opt(m, "keywords")],
                          globalIDStep(m))

\* The category-ID step of findItemsAdvanced.
advancedCategoryIDs(m, clock, c) ==
    IF c.err # nil THEN Fail(c.err)
    ELSE advancedKeywords(m, clock, [zeroParams EXCEPT !.categoryIDs = c.val],
                          optionalKeywords(m))

validateAdvanced(m, clock) ==
    IF ~Has(m, "categoryId") /\ ~Has(m, "categoryId(0)") /\ ~Has(m, "keywords")
    THEN Fail("ErrCategoryIDKeywordsMissing")
    ELSE advancedCategoryIDs(m, clock, optionalCategoryIDs(m))

\* The product-ID step of findItemsByProduct, e being the error of
\* processProductID, then the Global-ID step and the closing steps.
productIDStep(m, clock, e) ==
    IF e # nil THEN Fail(e)
    ELSE IF globalIDStep(m) # nil THEN Fail(globalIDStep(m))
    ELSE itemFiltersToSortOrder(m, clock,
             [zeroParams EXCEPT !.product = Some([idType |-> m["productId.@type"],
                                                  value |-> m["productId"]]),
                                !.globalID = Opt(m, "Global-ID")])

validateByProduct(m, clock) ==
    IF ~Has(m, "productId.@type") \/ ~Has(m, "productId") THEN Fail("ErrProductIDMissing")
    ELSE productIDStep(m, clock, processProductID(m["productId.@type"], m["productId"]))

\* The storeName step of findItemsIneBayStores, e being its error.
storeNameStep(m, clock, fp0, e) ==
    IF e # nil THEN Fail(e)
    ELSE globalIDToSortOrder(m, clock, [fp0 EXCEPT !.storeName = Opt(m, "storeName")])

\* The keywords step of findItemsIneBayStores, e being its error.
storeKeywords(m, clock, fp0, e) ==
    IF e # nil THEN Fail(e)
    ELSE storeNameStep(m, clock, [fp0 EXCEPT !.keywords = Opt(m, "keywords")],
                       IF Has(m, "storeName") THEN validateStoreName(m["storeName"]) ELSE nil)

\* The category-ID step of findItemsIneBayStores.
storeCategoryIDs(m, clock, c) ==
    IF c.err # nil THEN Fail(c.err)
    ELSE storeKeywords(m, clock, [zeroParams EXCEPT !.categoryIDs = c.val],
                       optionalKeywords(m))

validateInEBayStores(m, clock) ==
    IF /\ ~Has(m, "categoryId") /\ ~Has(m, "categoryId(0)")
       /\ ~Has(m, "keywords") /\ ~Has(m, "storeName")
    THEN Fail("ErrCategoryIDKeywordsStoreNameMissing")
    ELSE storeCategoryIDs(m, clock, optionalCategoryIDs(m))

Operations ==
    {"findItemsByCategory", "findItemsByKeywords", "findItemsAdvanced", "findItemsByProduct",
     "findItemsIneBayStores"}

\* v.validate(params) for the findParamsValidator of operation o.
validate(o, m, clock) ==
    CASE o = "findItemsByCategory" -> validateByCategory(m, clock)
      [] o = "findItemsByKeywords" -> validateByKeywords(m, clock)
      [] o = "findItemsAdvanced" -> validateAdvanced(m, clock)
      [] o = "findItemsByProduct" -> validateByProduct(m, clock)
      [] o = "findItemsIneBayStores" -> validateInEBayStores(m, clock)

\* ------------------------------------------------------------------------
\* The client: findItems and the five Find* calls
\* ------------------------------------------------------------------------

findingURL == "https://svcs.ebay.com/services/search/FindingService/v1?REST-PAYLOAD"

\* A URL http.NewRequestWithContext refuses (a control character in it).
malformedURL == "http://local\nhost"

StatusBadRequest == 400

StatusInternalServerError == 500

StatusOK == 200

NoAPIError == [Err |-> nil, StatusCode |-> 0]

NoResponse == [failed |-> FALSE, StatusCode |-> 0, decodes |-> FALSE, items |-> None]

\* What c.Do(req) may come back with: a transport error, or a response with a
\* status code and a body that json.Decoder can or cannot decode into res.
\* A body that decodes either holds a list under the key of the operation's
\* response (items is Some of it) or, like {} and null, does not (None).
Responses ==
    {[failed |-> TRUE, StatusCode |-> 0, decodes |-> FALSE, items |-> None]}
    \cup [failed : {FALSE}, StatusCode : {201, 404}, decodes : BOOLEAN, items : {None}]
    \cup [failed : {FALSE}, StatusCode : {StatusOK}, decodes : {FALSE}, items : {None}]
    \cup [failed : {FALSE}, StatusCode : {StatusOK}, decodes : {TRUE},
          items : {None, Some("searchResult")}]

\* fp.newRequest(ctx, url): the error of http.NewRequestWithContext, wrapped.
newRequest(url) == IF url = malformedURL THEN "ErrInvalidRequest" ELSE nil

\* The printable ASCII characters of the codes 32 to 95 and 97 to 126, in the
\* order of their codes.
PrintableLow ==
    " !\"#$%&'()*+,-./0123456789:;<=>?@ABCDEFGHIJKLMNOPQRSTUVWXYZ[\\]^_"

PrintableHigh == "abcdefghijklmnopqrstuvwxyz{|}~"

PrintableChars ==
    {Char(PrintableLow, i) : i \in 1..Len(PrintableLow)}
    \cup {Char(PrintableHigh, i) : i \in 1..Len(PrintableHigh)}

\* The byte of a printable character.
ByteOf ==
    [c \in PrintableChars |->
        IF \E i \in 1..Len(PrintableLow) : Char(PrintableLow, i) = c
        THEN 31 + CHOOSE i \in 1..Len(PrintableLow) : Char(PrintableLow, i) = c
        ELSE 96 + CHOOSE i \in 1..Len(PrintableHigh) : Char(PrintableHigh, i) = c]

\* a < b on Go strings, compared byte by byte from character i on.
RECURSIVE stringLess(_, _, _)
stringLess(a, b, i) ==
    IF i > Len(b) THEN FALSE
    ELSE IF i > Len(a) THEN TRUE
    ELSE IF Char(a, i) = Char(b, i) THEN stringLess(a, b, i + 1)
    ELSE ByteOf[Char(a, i)] < ByteOf[Char(b, i)]

\* The pair kv put into the pairs sorted by key, after the pairs of its key.
RECURSIVE insertKey(_, _)
insertKey(sorted, kv) ==
    IF Len(sorted) = 0 THEN <<kv>>
    ELSE IF stringLess(kv[1], Head(sorted)[1], 1) THEN <<kv>> \o sorted
    ELSE <<Head(sorted)>> \o insertKey(Tail(sorted), kv)

\* The pairs of a url.Values by sorted key (slices.Sort of the keys), the
\* values of one key staying in the order they were added in.
RECURSIVE sortKeys(_)
sortKeys(v) ==
    IF Len(v) = 0 THEN <<>>
    ELSE insertKey(sortKeys(SubSeq(v, 1, Len(v) - 1)), v[Len(v)])

upperhex == "0123456789ABCDEF"

\* The characters url.QueryEscape leaves as they are.
Unreserved ==
    {c \in PrintableChars :
        \/ ByteOf[c] \in 48..57 \/ ByteOf[c] \in 65..90 \/ ByteOf[c] \in 97..122
        \/ c \in {"-", "_", ".", "~"}}

\* url.QueryEscape of one character: itself, + for the space, %XX otherwise.
escapeChar ==
    [c \in PrintableChars |->
        IF c \in Unreserved THEN c
        ELSE IF c = " " THEN "+"
        ELSE "%" \o Char(upperhex, (ByteOf[c] \div 16) + 1)
                 \o Char(upperhex, (ByteOf[c] % 16) + 1)]

\* url.QueryEscape of the characters lo..hi of s, lo <= hi, by halves.
RECURSIVE escapeBetween(_, _, _)
escapeBetween(s, lo, hi) ==
    IF lo = hi THEN escapeChar[Char(s, lo)]
    ELSE escapeBetween(s, lo, (lo + hi) \div 2) \o escapeBetween(s, (lo + hi) \div 2 + 1, hi)

QueryEscape(s) == IF s = "" THEN "" ELSE escapeBetween(s, 1, Len(s))

\* The loop of Values.Encode over the sorted pairs: key=value, with & between.
RECURSIVE encodeLoop(_)
encodeLoop(sorted) ==
    IF Len(sorted) = 0 THEN ""
    ELSE (IF Len(sorted) = 1 THEN "" ELSE encodeLoop(SubSeq(sorted, 1, Len(sorted) - 1)) \o "&")
         \o QueryEscape(sorted[Len(sorted)][1]) \o "=" \o QueryEscape(sorted[Len(sorted)][2])

\* Values.Encode with the keys in the order they were added in.
EncodeUnsorted(v) == encodeLoop(v)

\* url.Values.Encode: the pairs sorted by key, escaped and joined.
Encode(v) == encodeLoop(sortKeys(v))

\* req.URL.Query() of a new request for url: the pairs of the query the URL
\* already has, which for the URLs of the client is one key without a value.
urlQuery(url) ==
    IF \E i \in 1..Len(url) : Char(url, i) = "?"
    THEN <<<<SubSeq(url, (CHOOSE i \in 1..Len(url) :
                              Char(url, i) = "?" /\ \A j \in 1..(i - 1) : Char(url, j) # "?") + 1,
                    Len(url)), "">>>>
    ELSE <<>>

\* SECURITY-APPNAME: the application ID the client was constructed with.
AppID == "appID"

findingServiceVersion == "1.0.0"

findingResponseDataFormat == "JSON"

\* qry.Add(key, *field) when the pointer field is not nil.
addOptional(key, field) == IF field # None THEN <<<<key, field[1]>>>> ELSE <<>>

\* addIndexed with the bare key for a single value.
addIndexedBareSingle(pre, values) ==
    IF Len(values) = 1 THEN <<<<pre, values[1]>>>>
    ELSE [j \in 1..Len(values) |-> <<Sprintf(pre, j - 1, "")>> \o <<values[j]>>]

\* qry.Add(fmt.Sprintf(pre + "(%d)", j), values[j]) for every j.
addIndexed(pre, values) == [j \in 1..Len(values) |-> <<Sprintf(pre, j - 1, "")>> \o <<values[j]>>]

\* The concatenation of the sequences of a sequence.
RECURSIVE Flatten(_)
Flatten(seqs) == IF Len(seqs) = 0 THEN <<>> ELSE Head(seqs) \o Flatten(Tail(seqs))

\* The loop of newRequest over fp.aspectFilters.
addAspectFilters(aspectFilters) ==
    Flatten([i \in 1..Len(aspectFilters) |->
        <<<<Sprintf("aspectFilter", i - 1, ".aspectName"), aspectFilters[i].aspectName>>>>
        \o addIndexed(Sprintf("aspectFilter", i - 1, ".aspectValueName"),
                      aspectFilters[i].aspectValueNames)])

\* The loop of newRequest over fp.itemFilters with the currency qualifier
\* dropped.
addItemFiltersNoParam(itemFilters) ==
    Flatten([i \in 1..Len(itemFilters) |->
        <<<<Sprintf("itemFilter", i - 1, ".name"), itemFilters[i].name>>>>
        \o addIndexed(Sprintf("itemFilter", i - 1, ".value"), itemFilters[i].values)])

\* The loop of newRequest over fp.itemFilters.
addItemFilters(itemFilters) ==
    Flatten([i \in 1..Len(itemFilters) |->
        <<<<Sprintf("itemFilter", i - 1, ".name"), itemFilters[i].name>>>>
        \o addIndexed(Sprintf("itemFilter", i - 1, ".value"), itemFilters[i].values)
        \o (IF itemFilters[i].paramName # None /\ itemFilters[i].paramValue # None
            THEN <<<<Sprintf("itemFilter", i - 1, ".paramName"), itemFilters[i].paramName[1]>>,
                   <<Sprintf("itemFilter", i - 1, ".paramValue"), itemFilters[i].paramValue[1]>>>>
            ELSE <<>>)])

\* The head of every query: the Global-ID and the four service parameters.
addService(o, p) ==
    addOptional("Global-ID", p.globalID)
    \o <<<<"OPERATION-NAME", o>>, <<"SERVICE-VERSION", findingServiceVersion>>,
         <<"SECURITY-APPNAME", AppID>>, <<"RESPONSE-DATA-FORMAT", findingResponseDataFormat>>>>

\* The affiliate block of every query.
addAffiliate(affiliate) ==
    IF affiliate = None THEN <<>>
    ELSE addOptional("affiliate.customId", affiliate[1].customID)
         \o addOptional("affiliate.geoTargeting", affiliate[1].geoTargeting)
         \o addOptional("affiliate.networkId", affiliate[1].networkID)
         \o addOptional("affiliate.trackingId", affiliate[1].trackingID)

\* The tail of every query: affiliate, postal code, pagination, sort order.
addClosing(p) ==
    addAffiliate(p.affiliate)
    \o addOptional("buyerPostalCode", p.buyerPostalCode)
    \o (IF p.paginationInput = None THEN <<>>
        ELSE addOptional("paginationInput.entriesPerPage", p.paginationInput[1].entriesPerPage)
             \o addOptional("paginationInput.pageNumber", p.paginationInput[1].pageNumber))
    \o addOptional("sortOrder", p.sortOrder)

\* The parameters fp.newRequest adds to the query of the request of operation
\* o, in the order of the calls of qry.Add, p being the validated parameters.
newRequestQuery(o, p) ==
    CASE o = "findItemsByCategory" ->
            addService(o, p) \o addAspectFilters(p.aspectFilters)
            \o addIndexed("categoryId", p.categoryIDs) \o addItemFilters(p.itemFilters)
            \o addIndexed("outputSelector", p.outputSelectors) \o addClosing(p)
      [] o = "findItemsByKeywords" ->
            addService(o, p) \o addAspectFilters(p.aspectFilters)
            \o addItemFilters(p.itemFilters) \o addOptional("keywords", p.keywords)
            \o addIndexed("outputSelector", p.outputSelectors) \o addClosing(p)
      [] o = "findItemsAdvanced" ->
            addService(o, p) \o addAspectFilters(p.aspectFilters)
            \o addIndexed("categoryId", p.categoryIDs)
            \o addOptional("descriptionSearch", p.descriptionSearch)
            \o addItemFilters(p.itemFilters) \o addOptional("keywords", p.keywords)
            \o addIndexed("outputSelector", p.outputSelectors) \o addClosing(p)
      [] o = "findItemsByProduct" ->
            addService(o, p) \o addItemFilters(p.itemFilters)
            \o addIndexed("outputSelector", p.outputSelectors)
            \o <<<<"productId.@type", p.product[1].idType>>,
                 <<"productId", p.product[1].value>>>>
            \o addClosing(p)
      [] o = "findItemsIneBayStores" ->
            addService(o, p) \o addAspectFilters(p.aspectFilters)
            \o addIndexed("categoryId", p.categoryIDs) \o addItemFilters(p.itemFilters)
            \o addOptional("keywords", p.keywords)
            \o addIndexed("outputSelector", p.outputSelectors)
            \o addOptional("storeName", p.storeName) \o addClosing(p)

\* findItems with the request built before the validation result is looked at.
findItemsFromRequestFirst(o, v, url, r) ==
    IF newRequest(url) # nil
    THEN [steps |-> <<"validate", "newRequest">>, resp |-> NoResponse, req |-> None,
          apiErr |-> [Err |-> newRequest(url), StatusCode |-> StatusInternalServerError]]
    ELSE IF v.err # nil
    THEN [steps |-> <<"validate", "newRequest">>, resp |-> NoResponse, req |-> None,
          apiErr |-> [Err |-> v.err, StatusCode |-> StatusBadRequest]]
    ELSE IF r.failed
    THEN [steps |-> <<"validate", "newRequest", "Do">>, resp |-> r,
          req |-> Some(newRequestQuery(o, v.val)),
          apiErr |-> [Err |-> "ErrFailedRequest", StatusCode |-> StatusInternalServerError]]
    ELSE IF r.StatusCode # StatusOK
    THEN [steps |-> <<"validate", "newRequest", "Do">>, resp |-> r,
          req |-> Some(newRequestQuery(o, v.val)),
          apiErr |-> [Err |-> "ErrInvalidStatus", StatusCode |-> StatusInternalServerError]]
    ELSE IF ~r.decodes
    THEN [steps |-> <<"validate", "newRequest", "Do", "Decode">>, resp |-> r,
          req |-> Some(newRequestQuery(o, v.val)),
          apiErr |-> [Err |-> "ErrDecodeAPIResponse", StatusCode |-> StatusInternalServerError]]
    ELSE [steps |-> <<"validate", "newRequest", "Do", "Decode">>, resp |-> r,
          req |-> Some(newRequestQuery(o, v.val)),
          apiErr |-> NoAPIError]

\* findItems with every 2xx status taken as success.
findItemsFromAny2xx(o, v, url, r) ==
    IF v.err # nil
    THEN [steps |-> <<"validate">>, resp |-> NoResponse, req |-> None,
          apiErr |-> [Err |-> v.err, StatusCode |-> StatusBadRequest]]
    ELSE IF newRequest(url) # nil
    THEN [steps |-> <<"validate", "newRequest">>, resp |-> NoResponse, req |-> None,
          apiErr |-> [Err |-> newRequest(url), StatusCode |-> StatusInternalServerError]]
    ELSE IF r.failed
    THEN [steps |-> <<"validate", "newRequest", "Do">>, resp |-> r,
          req |-> Some(newRequestQuery(o, v.val)),
          apiErr |-> [Err |-> "ErrFailedRequest", StatusCode |-> StatusInternalServerError]]
    ELSE IF r.StatusCode < StatusOK \/ r.StatusCode >= 300
    THEN [steps |-> <<"validate", "newRequest", "Do">>, resp |-> r,
          req |-> Some(newRequestQuery(o, v.val)),
          apiErr |-> [Err |-> "ErrInvalidStatus", StatusCode |-> StatusInternalServerError]]
    ELSE IF ~r.decodes
    THEN [steps |-> <<"validate", "newRequest", "Do", "Decode">>, resp |-> r,
          req |-> Some(newRequestQuery(o, v.val)),
          apiErr |-> [Err |-> "ErrDecodeAPIResponse", StatusCode |-> StatusInternalServerError]]
    ELSE [steps |-> <<"validate", "newRequest", "Do", "Decode">>, resp |-> r,
          req |-> Some(newRequestQuery(o, v.val)),
          apiErr |-> NoAPIError]

\* The body of findItems once v.validate(params) has returned v: the steps
\* taken, the response received and the error returned, r being what the HTTP
\* client answers if it is asked.
findItemsFrom(o, v, url, r) ==
    IF v.err # nil
    THEN [steps |-> <<"validate">>, resp |-> NoResponse, req |-> None,
          apiErr |-> [Err |-> v.err, StatusCode |-> StatusBadRequest]]
    ELSE IF newRequest(url) # nil
    THEN [steps |-> <<"validate", "newRequest">>, resp |-> NoResponse, req |-> None,
          apiErr |-> [Err |-> newRequest(url), StatusCode |-> StatusInternalServerError]]
    ELSE IF r.failed
    THEN [steps |-> <<"validate", "newRequest", "Do">>, resp |-> r,
          req |-> Some(newRequestQuery(o, v.val)),
          apiErr |-> [Err |-> "ErrFailedRequest", StatusCode |-> StatusInternalServerError]]
    ELSE IF r.StatusCode # StatusOK
    THEN [steps |-> <<"validate", "newRequest", "Do">>, resp |-> r,
          req |-> Some(newRequestQuery(o, v.val)),
          apiErr |-> [Err |-> "ErrInvalidStatus", StatusCode |-> StatusInternalServerError]]
    ELSE IF ~r.decodes
    THEN [steps |-> <<"validate", "newRequest", "Do", "Decode">>, resp |-> r,
          req |-> Some(newRequestQuery(o, v.val)),
          apiErr |-> [Err |-> "ErrDecodeAPIResponse", StatusCode |-> StatusInternalServerError]]
    ELSE [steps |-> <<"validate", "newRequest", "Do", "Decode">>, resp |-> r,
          req |-> Some(newRequestQuery(o, v.val)),
          apiErr |-> NoAPIError]

\* A call that deletes from the caller's map the entries it has read, once
\* validation has passed.
returnedConsuming(o, v, out) ==
    /\ op' = o
    /\ fp' = IF v.err # nil THEN zeroParams ELSE v.val
    /\ steps' = out.steps
    /\ resp' = out.resp
    /\ apiErr' = out.apiErr
    /\ req' = out.req
    /\ params' = IF v.err # nil THEN params ELSE <<>>
    /\ UNCHANGED <<URL, now, calls>>

\* The state a call of operation o leaves: v is what v.validate(params)
\* returned, out what the body of findItems did after it.
returned(o, v, out) ==
    /\ op' = o
    /\ fp' = IF v.err # nil THEN zeroParams ELSE v.val
    /\ steps' = out.steps
    /\ resp' = out.resp
    /\ apiErr' = out.apiErr
    /\ req' = out.req
    /\ UNCHANGED <<URL, params, now, calls>>

\* req.URL.RawQuery of the request whose added parameters are request[1]:
\* qry.Encode() at the end of fp.newRequest; "" when no request was built.
rawQueryOf(url, request) ==
    IF request = None THEN "" ELSE Encode(urlQuery(url) \o request[1])

\* The RawQuery of the request the last call handed to c.Do.
RawQuery == rawQueryOf(URL, req)

\* The goroutines that may be inside a Find* call of the one client at once.
CallIds == {"a", "b"}

\* A goroutine that is not inside a call.  The locals of a call are those of
\* Find* and findItems: the validator v (fp), req, resp and the error.
idleCall ==
    [pc |-> "idle", op |-> "none", fp |-> zeroParams, steps |-> <<>>,
     req |-> None, resp |-> NoResponse, apiErr |-> NoAPIError]

\* Every call reading the sort order that one goroutine's validator holds,
\* as it would if that field were kept in the client.
firstSortOrder(cs, c) ==
    [cs[c].fp EXCEPT !.sortOrder = cs[CHOOSE d \in DOMAIN cs : TRUE].fp.sortOrder]

\* The validator a call reads in newRequest: the one its own Find* made,
\* &findItemsByCategoryParams{appID: c.AppID}, a fresh struct for each call.
ownParams(cs, c) == cs[c].fp

\* A call that returns: its locals at the return.
finished(call, err, code) ==
    [call EXCEPT !.pc = "done", !.apiErr = [Err |-> err, StatusCode |-> code]]

\* err := v.validate(params) of call c, entering operation o.
validateStep(call, o, v) ==
    IF v.err # nil
    THEN finished([call EXCEPT !.op = o, !.steps = <<"validate">>],
                  v.err, StatusBadRequest)
    ELSE [call EXCEPT !.pc = "newRequest", !.op = o, !.steps = <<"validate">>,
                      !.fp = v.val]

\* req, err := v.newRequest(ctx, c.URL)
newRequestStep(call, url, own) ==
    IF newRequest(url) # nil
    THEN finished([call EXCEPT !.steps = Append(@, "newRequest")],
                  newRequest(url), StatusInternalServerError)
    ELSE [call EXCEPT !.pc = "Do", !.steps = Append(@, "newRequest"),
                      !.req = Some(newRequestQuery(call.op, own))]

\* resp, err := c.Do(req), and the test of resp.StatusCode
doStep(call, r) ==
    IF r.failed
    THEN finished([call EXCEPT !.steps = Append(@, "Do"), !.resp = r],
                  "ErrFailedRequest", StatusInternalServerError)
    ELSE IF r.StatusCode # StatusOK
    THEN finished([call EXCEPT !.steps = Append(@, "Do"), !.resp = r],
                  "ErrInvalidStatus", StatusInternalServerError)
    ELSE [call EXCEPT !.pc = "Decode", !.steps = Append(@, "Do"), !.resp = r]

\* err = json.NewDecoder(resp.Body).Decode(&res), and the return
decodeStep(call) ==
    IF ~call.resp.decodes
    THEN finished([call EXCEPT !.steps = Append(@, "Decode")],
                  "ErrDecodeAPIResponse", StatusInternalServerError)
    ELSE [call EXCEPT !.pc = "done", !.steps = Append(@, "Decode")]

\* One step of one call in flight; the other calls, the client and the
\* caller's map stay as they are.
stepped(c, call) ==
    /\ calls' = [calls EXCEPT ![c] = call]
    /\ UNCHANGED <<URL, params, now, op, steps, resp, fp, apiErr, req>>

Validate ==
    \E c \in CallIds, o \in Operations :
        /\ calls[c].pc = "idle"
        /\ stepped(c, validateStep(calls[c], o, validate(o, params, now)))

NewRequest ==
    \E c \in CallIds :
        /\ calls[c].pc = "newRequest"
        /\ stepped(c, newRequestStep(calls[c], URL, ownParams(calls, c)))

Do ==
    \E c \in CallIds, r \in Responses :
        /\ calls[c].pc = "Do"
        /\ stepped(c, doStep(calls[c], r))

Decode ==
    \E c \in CallIds :
        /\ calls[c].pc = "Decode"
        /\ stepped(c, decodeStep(calls[c]))

\* Calls of several goroutines on one client, interleaved step by step.
NextConcurrent ==
    \/ Validate
    \/ NewRequest
    \/ Do
    \/ Decode

\* c.findItems(ctx, params, v, res) for operation o, v being what the
\* validator of o returns on params; what the HTTP client answers, if it is
\* asked, is any of Responses.
findItems(o, v) ==
    \E r \in Responses : returned(o, v, findItemsFrom(o, v, URL, r))

FindItemsByCategories == findItems("findItemsByCategory", validateByCategory(params, now))

FindItemsByKeywords == findItems("findItemsByKeywords", validateByKeywords(params, now))

FindItemsAdvanced == findItems("findItemsAdvanced", validateAdvanced(params, now))

FindItemsByProduct == findItems("findItemsByProduct", validateByProduct(params, now))

FindItemsInEBayStores == findItems("findItemsIneBayStores", validateInEBayStores(params, now))

Next ==
    \/ FindItemsByCategories
    \/ FindItemsByKeywords
    \/ FindItemsAdvanced
    \/ FindItemsByProduct
    \/ FindItemsInEBayStores

\* ------------------------------------------------------------------------
\* The inputs the calls are explored on
\* ------------------------------------------------------------------------

EmptyMap == <<>>

\* The maps of acc, each extended with one fragment from each of the sets of
\* fragments of slots (maps with pairwise disjoint keys).
RECURSIVE CombineInto(_, _)
CombineInto(acc, slots) ==
    IF Len(slots) = 0 THEN acc
    ELSE CombineInto({f @@ g : f \in acc, g \in Head(slots)}, Tail(slots))

\* All maps made of one fragment from each of the given sets of fragments.
Combine(slots) == CombineInto({EmptyMap}, slots)

\* The clock of the model: 2024-06-01T12:00:00Z.
Clock == <<2024, 6, 1, 12, 0, 0>>

\* The state after NewFindingClient, before the first call, with the caller's
\* map drawn from a set of maps and the client's URL from a set of URLs.
InitWith(maps, urls) ==
    /\ URL \in urls
    /\ params \in maps
    /\ now = Clock
    /\ op = "none"
    /\ steps = <<>>
    /\ resp = NoResponse
    /\ fp = zeroParams
    /\ apiErr = NoAPIError
    /\ req = None
    /\ calls = [c \in CallIds |-> idleCall]

\* Shared optional fields, all of them valid.
ValidOptionals ==
    ("Global-ID" :> "EBAY-US")
    @@ ("aspectFilter.aspectName" :> "Size") @@ ("aspectFilter.aspectValueName" :> "10")
    @@ ("itemFilter.name" :> "BestOfferOnly") @@ ("itemFilter.value" :> "true")
    @@ ("outputSelector" :> "SellerInfo")
    @@ ("affiliate.networkId" :> "2") @@ ("affiliate.trackingId" :> "1")
    @@ ("buyerPostalCode" :> "111")
    @@ ("paginationInput.entriesPerPage" :> "1")
    @@ ("sortOrder" :> "BestMatch")

\* Required fields of the five operations, present or not, valid or not,
\* alone or with shared optional fields, valid or not.
RequiredFieldMaps ==
    Combine(<<
        {EmptyMap, "categoryId" :> "1", "categoryId" :> "x"},
        {EmptyMap, "categoryId(0)" :> "2", "categoryId(0)" :> ""},
        {EmptyMap, "keywords" :> "ab", "keywords" :> "a"},
        {EmptyMap, "productId.@type" :> "ReferenceID", "productId" :> "1",
         ("productId.@type" :> "ReferenceID") @@ ("productId" :> "1")},
        {EmptyMap, "storeName" :> "shop", "storeName" :> "a&b"},
        {EmptyMap, ValidOptionals,
         ("Global-ID" :> "EBAY") @@ ValidOptionals,
         ("itemFilter.value" :> "1") @@ ValidOptionals,
         ("sortOrder" :> "Nearest") @@ ValidOptionals}
    >>)

Init == InitWith(RequiredFieldMaps, {findingURL, malformedURL})

Spec == Init /\ [][Next]_vars

\* ------------------------------------------------------------------------
\* Properties of findItems
\* ------------------------------------------------------------------------

\* A call has returned.
Called == op \in Operations

\* The error v.validate(params) returned in the call that last ran.
validateErr == validate(op, params, now).err

\* C1: in each of the five Find* operations, when validation of the params
\* map fails the call takes no step after validate (newRequest and the HTTP
\* client's Do are not invoked, no response is received) and returns an
\* APIError with StatusCode 400 holding the validation error.
C1_NoRequestOnValidationFailure ==
    (Called /\ validateErr # nil) =>
        /\ steps = <<"validate">>
        /\ resp = NoResponse
        /\ apiErr = [Err |-> validateErr, StatusCode |-> 400]

\* findItemsByProduct has rejected params without a product ID, on a client
\* whose URL could not have been turned into a request.
C1_Witness ==
    /\ op = "findItemsByProduct"
    /\ apiErr = [Err |-> "ErrProductIDMissing", StatusCode |-> 400]
    /\ steps = <<"validate">>
    /\ URL = malformedURL

\* C2: every non-nil error of a Find* call has StatusCode 400 exactly when
\* validation failed and 500 otherwise, and a 500 is one of: the request
\* could not be created (ErrInvalidRequest), the transport failed
\* (ErrFailedRequest), the response status was not 200 (ErrInvalidStatus, the
\* body not decoded), the body of a 200 could not be decoded
\* (ErrDecodeAPIResponse).
C2_StatusCodeOfEveryError ==
    (Called /\ apiErr.Err # nil) =>
        /\ apiErr.StatusCode \in {400, 500}
        /\ apiErr.StatusCode = 400 <=> validateErr # nil
        /\ apiErr.StatusCode = 500 =>
            \/ /\ apiErr.Err = "ErrInvalidRequest"
               /\ URL = malformedURL
               /\ steps = <<"validate", "newRequest">>
            \/ /\ apiErr.Err = "ErrFailedRequest"
               /\ resp.failed
               /\ steps = <<"validate", "newRequest", "Do">>
            \/ /\ apiErr.Err = "ErrInvalidStatus"
               /\ ~resp.failed /\ resp.StatusCode # 200
               /\ steps = <<"validate", "newRequest", "Do">>
            \/ /\ apiErr.Err = "ErrDecodeAPIResponse"
               /\ ~resp.failed /\ resp.StatusCode = 200 /\ ~resp.decodes
               /\ steps = <<"validate", "newRequest", "Do", "Decode">>

\* A 201 with a decodable body has been answered with ErrInvalidStatus.
C2_Witness ==
    /\ Called
    /\ apiErr = [Err |-> "ErrInvalidStatus", StatusCode |-> 500]
    /\ resp = [failed |-> FALSE, StatusCode |-> 201, decodes |-> TRUE, items |-> None]

\* ------------------------------------------------------------------------
\* Properties of the required fields
\* ------------------------------------------------------------------------

\* The required identifying field of operation o is absent from m.
RequiredFieldAbsent(o, m) ==
    CASE o = "findItemsByCategory" -> ~Has(m, "categoryId") /\ ~Has(m, "categoryId(0)")
      [] o = "findItemsByKeywords" -> ~Has(m, "keywords")
      [] o = "findItemsAdvanced" ->
            ~Has(m, "categoryId") /\ ~Has(m, "categoryId(0)") /\ ~Has(m, "keywords")
      [] o = "findItemsByProduct" -> ~Has(m, "productId.@type") \/ ~Has(m, "productId")
      [] o = "findItemsIneBayStores" ->
            /\ ~Has(m, "categoryId") /\ ~Has(m, "categoryId(0)")
            /\ ~Has(m, "keywords") /\ ~Has(m, "storeName")

\* The missing-field error of operation o.
MissingFieldError(o) ==
    CASE o = "findItemsByCategory" -> "ErrCategoryIDMissing"
      [] o = "findItemsByKeywords" -> "ErrKeywordsMissing"
      [] o = "findItemsAdvanced" -> "ErrCategoryIDKeywordsMissing"
      [] o = "findItemsByProduct" -> "ErrProductIDMissing"
      [] o = "findItemsIneBayStores" -> "ErrCategoryIDKeywordsStoreNameMissing"

\* C3: when the required identifying field of the operation is absent,
\* validation fails with that operation's missing-field error, whatever other
\* parameters are present and whether or not they are valid.
C3_MissingRequiredField ==
    (Called /\ RequiredFieldAbsent(op, params)) =>
        apiErr = [Err |-> MissingFieldError(op), StatusCode |-> 400]

\* findItemsByCategory has run without category IDs on params whose
\* Global-ID is invalid.
C3_Witness ==
    /\ op = "findItemsByCategory"
    /\ RequiredFieldAbsent(op, params)
    /\ Has(params, "Global-ID") /\ validateGlobalID(params["Global-ID"]) # nil
    /\ apiErr.Err = "ErrCategoryIDMissing"

\* The operations that accept category IDs.
CategoryOperations == {"findItemsByCategory", "findItemsAdvanced", "findItemsIneBayStores"}

\* C5: for every operation that accepts category IDs, params holding both
\* "categoryId" and "categoryId(0)" fail validation with
\* ErrInvalidIndexSyntax, whatever the two values and the rest of the map.
C5_CategoryIDIndexSyntax ==
    (op \in CategoryOperations /\ Has(params, "categoryId") /\ Has(params, "categoryId(0)")) =>
        apiErr = [Err |-> "ErrInvalidIndexSyntax", StatusCode |-> 400]

\* findItemsIneBayStores has rejected params with both keys, the values of
\* which are not category IDs, and with keywords and a store name.
C5_Witness ==
    /\ op = "findItemsIneBayStores"
    /\ Has(params, "categoryId") /\ params["categoryId"] = "x"
    /\ Has(params, "categoryId(0)") /\ params["categoryId(0)"] = ""
    /\ Has(params, "keywords") /\ Has(params, "storeName")
    /\ apiErr.Err = "ErrInvalidIndexSyntax"

\* ------------------------------------------------------------------------
\* The order of the checks
\* ------------------------------------------------------------------------

\* Required fields that every operation accepts.
ValidRequired ==
    ("categoryId" :> "1") @@ ("keywords" :> "ab")
    @@ ("productId.@type" :> "ReferenceID") @@ ("productId" :> "1")
    @@ ("storeName" :> "shop")

\* The same without category IDs.
ValidRequiredNoCategory ==
    ("keywords" :> "ab") @@ ("productId.@type" :> "ReferenceID") @@ ("productId" :> "1")
    @@ ("storeName" :> "shop")

\* Valid required fields with every shared field, and descriptionSearch,
\* valid or invalid independently of the others.
OrderMaps ==
    {ValidRequired @@ f : f \in Combine(<<
        {"Global-ID" :> "EBAY-US", "Global-ID" :> "EBAY"},
        {("aspectFilter.aspectName" :> "Size") @@ ("aspectFilter.aspectValueName" :> "10"),
         "aspectFilter.aspectName" :> "Size"},
        {EmptyMap, "descriptionSearch" :> "true", "descriptionSearch" :> "123"},
        {("itemFilter.name" :> "BestOfferOnly") @@ ("itemFilter.value" :> "true"),
         ("itemFilter.name" :> "BestOfferOnly") @@ ("itemFilter.value" :> "1")},
        {"outputSelector" :> "SellerInfo", "outputSelector" :> "Seller"},
        {("affiliate.networkId" :> "2") @@ ("affiliate.trackingId" :> "1"),
         ("affiliate.networkId" :> "1") @@ ("affiliate.trackingId" :> "1")},
        {"buyerPostalCode" :> "111", "buyerPostalCode" :> "1"},
        {"paginationInput.entriesPerPage" :> "1", "paginationInput.entriesPerPage" :> "0"},
        {"sortOrder" :> "BestMatch", "sortOrder" :> "Nearest"}
    >>)}

InitOrder == InitWith(OrderMaps, {findingURL})

SpecOrder == InitOrder /\ [][Next]_vars

\* The first non-nil error of a sequence of errors, nil if there is none.
RECURSIVE FirstError(_)
FirstError(errs) ==
    IF Len(errs) = 0 THEN nil
    ELSE IF Head(errs) # nil THEN Head(errs)
    ELSE FirstError(Tail(errs))

\* The error of each shared field of m taken alone.
globalIDErr(m) == IF Has(m, "Global-ID") THEN validateGlobalID(m["Global-ID"]) ELSE nil

aspectFiltersErr(m) == processAspectFilters(m).err

descriptionSearchErr(m) ==
    IF Has(m, "descriptionSearch") /\ m["descriptionSearch"] \notin {"true", "false"}
    THEN "ErrInvalidBooleanValue" ELSE nil

itemFiltersErr(m, clock) == processItemFilters(m, clock).err

outputSelectorsErr(m) == processOutputSelectors(m).err

affiliateErr(m) == processAffiliate(m).err

postalCodeErr(m) ==
    IF Has(m, "buyerPostalCode") /\ ~isValidPostalCode(m["buyerPostalCode"])
    THEN "ErrInvalidPostalCode" ELSE nil

paginationErr(m) == processPaginationInput(m).err

sortOrderErr(m, clock) ==
    IF Has(m, "sortOrder")
    THEN validateSortOrder(m["sortOrder"], processItemFilters(m, clock).val,
                           Has(m, "buyerPostalCode"))
    ELSE nil

\* The errors of the fields from the item filters to the sort order.
ClosingErrs(m, clock) ==
    <<itemFiltersErr(m, clock), outputSelectorsErr(m), affiliateErr(m), postalCodeErr(m),
      paginationErr(m), sortOrderErr(m, clock)>>

\* The required-field checks of operation o pass on m.
RequiredFieldsPass(o, m) ==
    LET cOk == Has(m, "categoryId") \/ Has(m, "categoryId(0)")
        cPass == cOk => processCategoryIDs(m).err = nil
        kPass == Has(m, "keywords") => processKeywords(m).err = nil
        sPass == Has(m, "storeName") => validateStoreName(m["storeName"]) = nil
    IN  CASE o = "findItemsByCategory" -> cOk /\ cPass
          [] o = "findItemsByKeywords" -> Has(m, "keywords") /\ kPass
          [] o = "findItemsAdvanced" -> (cOk \/ Has(m, "keywords")) /\ cPass /\ kPass
          [] o = "findItemsByProduct" ->
                /\ Has(m, "productId.@type") /\ Has(m, "productId")
                /\ processProductID(m["productId.@type"], m["productId"]) = nil
          [] o = "findItemsIneBayStores" ->
                /\ cOk \/ Has(m, "keywords") \/ Has(m, "storeName")
                /\ cPass /\ kPass /\ sPass

\* The fields operation o checks after its required fields, in its order:
\* findItemsByProduct reads no aspect filters, and findItemsAdvanced checks
\* descriptionSearch between the aspect filters and the item filters.
OrderedErrs(o, m, clock) ==
    CASE o = "findItemsByProduct" -> <<globalIDErr(m)>> \o ClosingErrs(m, clock)
      [] o = "findItemsAdvanced" ->
            <<globalIDErr(m), aspectFiltersErr(m), descriptionSearchErr(m)>>
            \o ClosingErrs(m, clock)
      [] OTHER -> <<globalIDErr(m), aspectFiltersErr(m)>> \o ClosingErrs(m, clock)

\* C4: validation reports one error, the first in a fixed order: once the
\* required fields of the operation pass, the error is that of the earliest
\* invalid field in the order global ID, aspect filters (in the operations
\* that read them: all but findItemsByProduct), descriptionSearch (in
\* findItemsAdvanced), item filters, output selectors, affiliate, postal
\* code, pagination, sort order; nil if none is invalid.
C4_FirstErrorInFieldOrder ==
    (Called /\ RequiredFieldsPass(op, params)) =>
        validateErr = FirstError(OrderedErrs(op, params, now))

\* findItemsAdvanced has reported the invalid descriptionSearch of params
\* whose item filter and every later field are invalid too.
C4_Witness ==
    /\ op = "findItemsAdvanced"
    /\ RequiredFieldsPass(op, params)
    /\ globalIDErr(params) = nil /\ aspectFiltersErr(params) = nil
    /\ descriptionSearchErr(params) # nil
    /\ \A i \in 1..6 : ClosingErrs(params, now)[i] # nil
    /\ apiErr = [Err |-> "ErrInvalidBooleanValue", StatusCode |-> 400]

\* The shared fields in the order global ID, aspect filters, item filters,
\* output selectors, affiliate, postal code, pagination, sort order, the
\* aspect filters counted only in the operations that read them.
SharedErrs(o, m, clock) ==
    IF o = "findItemsByProduct" THEN <<globalIDErr(m)>> \o ClosingErrs(m, clock)
    ELSE <<globalIDErr(m), aspectFiltersErr(m)>> \o ClosingErrs(m, clock)

\* C4 as stated: in every operation, when two or more of the shared fields
\* are invalid, the error is that of the earliest invalid one in the order
\* global ID, aspect filters, item filters, output selectors, affiliate,
\* postal code, pagination, sort order.
C4_AsStated ==
    (Called /\ RequiredFieldsPass(op, params)
        /\ Cardinality({i \in 1..Len(SharedErrs(op, params, now)) :
                           SharedErrs(op, params, now)[i] # nil}) >= 2) =>
        validateErr = FirstError(SharedErrs(op, params, now))

\* ------------------------------------------------------------------------
\* Numbered and non-numbered syntax
\* ------------------------------------------------------------------------

\* The highest index a numbered key of the explored maps carries.
MaxIndex == 2

Indices == 0..MaxIndex

\* The map with the keys pre(i)suf, i an index, the key of index i holding vals[i].
Indexed(pre, suf, vals) ==
    [k \in {Sprintf(pre, i, suf) : i \in Indices} |->
        vals[CHOOSE i \in Indices : Sprintf(pre, i, suf) = k]]

\* The maps that hold some of the keys of f, with the values f gives them.
SubMaps(f) == {[k \in S |-> f[k]] : S \in SUBSET DOMAIN f}

\* A value for each index.
IndexValues == [i \in Indices |-> ToString(10 + i)]

\* The non-numbered key and the numbered keys of a list of values, each
\* present or absent.
ValueKeyMaps(attr) == SubMaps((attr :> "9") @@ Indexed(attr, "", IndexValues))

\* Category IDs in both syntaxes.
CategoryIDMaps == {ValidRequiredNoCategory @@ f : f \in ValueKeyMaps("categoryId")}

\* Output selectors in both syntaxes.
OutputSelectorMaps ==
    {ValidRequired @@ f :
        f \in SubMaps(("outputSelector" :> "SellerInfo")
                      @@ Indexed("outputSelector", "",
                                 [i \in Indices |-> validOutputSelectors[i + 1]]))}

\* The values of a non-numbered and of a numbered item filter in both syntaxes.
ItemFilterValueMaps ==
    {ValidRequired @@ n @@ f :
        n \in {EmptyMap, "itemFilter.name" :> "ExcludeCategory"},
        f \in ValueKeyMaps("itemFilter.value")}
    \cup {ValidRequired @@ ("itemFilter(0).name" :> "ExcludeCategory") @@ f :
             f \in ValueKeyMaps("itemFilter(0).value")}

\* The values of a non-numbered and of a numbered aspect filter in both syntaxes.
AspectFilterValueMaps ==
    {ValidRequired @@ n @@ f :
        n \in {EmptyMap, "aspectFilter.aspectName" :> "Size"},
        f \in ValueKeyMaps("aspectFilter.aspectValueName")}
    \cup {ValidRequired @@ ("aspectFilter(0).aspectName" :> "Size") @@ f :
             f \in ValueKeyMaps("aspectFilter(0).aspectValueName")}

\* Aspect filters in both syntaxes, each with one value.
AspectFilterMaps ==
    {ValidRequired @@ f : f \in Combine(
        <<{EmptyMap, ("aspectFilter.aspectName" :> "Size")
                     @@ ("aspectFilter.aspectValueName" :> "9")}>>
        \o [i \in 1..(MaxIndex + 1) |->
               {EmptyMap, (Sprintf("aspectFilter", i - 1, ".aspectName") :> "Size")
                          @@ (Sprintf("aspectFilter", i - 1, ".aspectValueName")
                              :> IndexValues[i - 1])}])}

\* A seller filter in the non-numbered or in the numbered syntax of index i.
SellerFilter(pre, name) == ((pre \o ".name") :> name) @@ ((pre \o ".value") :> "0")

\* Item filters in both syntaxes, each a Seller or an ExcludeSeller filter.
ItemFilterMaps ==
    {ValidRequired @@ f : f \in Combine(
        <<{EmptyMap, SellerFilter("itemFilter", "Seller"),
           SellerFilter("itemFilter", "ExcludeSeller")}>>
        \o [i \in 1..(MaxIndex + 1) |->
               {EmptyMap, SellerFilter(Sprintf("itemFilter", i - 1, ""), "Seller"),
                SellerFilter(Sprintf("itemFilter", i - 1, ""), "ExcludeSeller")}])}

IndexedMaps ==
    CategoryIDMaps \cup OutputSelectorMaps \cup ItemFilterValueMaps
    \cup AspectFilterValueMaps \cup AspectFilterMaps \cup ItemFilterMaps

InitIndexed == InitWith(IndexedMaps, {findingURL})

SpecIndexed == InitIndexed /\ [][Next]_vars

\* The repeated constructs operation o reads: the non-numbered key, and the
\* prefix and suffix around the index of the numbered keys.
Constructs(o) ==
    {[bare |-> "itemFilter.name", pre |-> "itemFilter", suf |-> ".name"],
     [bare |-> "outputSelector", pre |-> "outputSelector", suf |-> ""]}
    \cup (IF o \in CategoryOperations
          THEN {[bare |-> "categoryId", pre |-> "categoryId", suf |-> ""]} ELSE {})
    \cup (IF o # "findItemsByProduct"
          THEN {[bare |-> "aspectFilter.aspectName", pre |-> "aspectFilter",
                 suf |-> ".aspectName"]}
          ELSE {})

\* C6: on successfully validated parameters, for no repeated construct the
\* operation reads (category IDs, item filters, aspect filters, output
\* selectors) do the raw params hold both the non-numbered form (name) and
\* the numbered form of index 0 (name(0)); numbered forms of a higher index
\* may stand next to the non-numbered form, and are ignored.
C6_NoBareWithIndexZero ==
    (Called /\ validateErr = nil) =>
        \A c \in Constructs(op) :
            ~(Has(params, c.bare) /\ Has(params, Sprintf(c.pre, 0, c.suf)))

\* findItemsByCategory has validated params holding categoryId and
\* categoryId(1), and kept the category ID of the non-numbered key alone.
C6_Witness ==
    /\ op = "findItemsByCategory"
    /\ Has(params, "categoryId") /\ Has(params, "categoryId(1)")
    /\ apiErr.Err = nil
    /\ fp.categoryIDs = <<params["categoryId"]>>

\* C6 as stated: on successfully validated parameters, for no repeated
\* construct the operation reads do the raw params hold both the
\* non-numbered form and a numbered form name(0), name(1), ...
C6_AsStated ==
    (Called /\ validateErr = nil) =>
        \A c \in Constructs(op) :
            ~(Has(params, c.bare) /\ \E i \in Indices : Has(params, Sprintf(c.pre, i, c.suf)))

\* The params of the scenario: a non-numbered Seller filter next to an
\* ExcludeSeller filter numbered 1.
SellerWithNumberedExcludeSeller(m) ==
    /\ Has(m, "itemFilter.name") /\ m["itemFilter.name"] = "Seller"
    /\ Has(m, "itemFilter.value") /\ m["itemFilter.value"] = "0"
    /\ Has(m, "itemFilter(1).name") /\ m["itemFilter(1).name"] = "ExcludeSeller"
    /\ Has(m, "itemFilter(1).value") /\ m["itemFilter(1).value"] = "0"

\* C7: params with itemFilter.name=Seller, itemFilter.value=0,
\* itemFilter(1).name=ExcludeSeller and itemFilter(1).value=0 (and the
\* required field of the operation) validate, itemFilter(1) being ignored
\* and the item-filter list being the Seller filter alone; they fail, and
\* then with ErrInvalidIndexSyntax rather than with a seller-exclusivity
\* error, only when a filter numbered 0 is present too.
C7_NumberedOneIgnored ==
    (Called /\ SellerWithNumberedExcludeSeller(params)) =>
        IF Has(params, "itemFilter(0).name")
        THEN apiErr = [Err |-> "ErrInvalidIndexSyntax", StatusCode |-> 400]
        ELSE /\ validateErr = nil
             /\ fp.itemFilters = <<[name |-> "Seller", values |-> <<"0">>,
                                    paramName |-> None, paramValue |-> None]>>

\* findItemsByKeywords has validated the params of the scenario, without a
\* filter numbered 0, and kept the Seller filter alone.
C7_Witness ==
    /\ op = "findItemsByKeywords"
    /\ SellerWithNumberedExcludeSeller(params)
    /\ ~Has(params, "itemFilter(0).name")
    /\ steps = <<"validate", "newRequest", "Do", "Decode">>
    /\ Len(fp.itemFilters) = 1 /\ fp.itemFilters[1].name = "Seller"

\* C7 as stated: the params of the scenario fail validation with
\* ErrInvalidIndexSyntax.
C7_AsStated ==
    (Called /\ SellerWithNumberedExcludeSeller(params)) =>
        validateErr = "ErrInvalidIndexSyntax"

\* The first index i for which m lacks the key pre(i)suf.
FirstMissing(m, pre, suf) ==
    CHOOSE k \in 0..(MaxIndex + 1) :
        /\ ~Has(m, Sprintf(pre, k, suf))
        /\ \A j \in 0..(k - 1) : Has(m, Sprintf(pre, j, suf))

\* The values of a list as the two syntaxes give them: the non-numbered
\* value alone, or the numbered values up to the first missing index.
ExpectedValues(m, attr) ==
    IF Has(m, attr) THEN <<m[attr]>>
    ELSE [i \in 1..FirstMissing(m, attr, "") |-> m[Sprintf(attr, i - 1, "")]]

\* The names and values of a list of filters as the two syntaxes give them.
ExpectedFilters(m, pre, nameSuf, valueSuf) ==
    IF Has(m, pre \o nameSuf)
    THEN <<[name |-> m[pre \o nameSuf], values |-> ExpectedValues(m, pre \o valueSuf)]>>
    ELSE [i \in 1..FirstMissing(m, pre, nameSuf) |->
             [name |-> m[Sprintf(pre, i - 1, nameSuf)],
              values |-> ExpectedValues(m, Sprintf(pre, i - 1, valueSuf))]]

\* A name without a non-numbered value and without a value numbered 0.
NameOnly(m, name, value) ==
    Has(m, name) /\ ~Has(m, value) /\ ~Has(m, value \o "(0)")

\* The checks that precede the aspect filters pass.
PassesUntilAspectFilters(o, m) ==
    RequiredFieldsPass(o, m) /\ globalIDErr(m) = nil /\ o # "findItemsByProduct"

\* The checks that precede the item filters pass.
PassesUntilItemFilters(o, m) ==
    /\ RequiredFieldsPass(o, m) /\ globalIDErr(m) = nil
    /\ o # "findItemsByProduct" => aspectFiltersErr(m) = nil
    /\ o = "findItemsAdvanced" => descriptionSearchErr(m) = nil

\* C8: in the numbered syntax the parsed list is the values at key(0),
\* key(1), ... up to the first missing index, in index order; keys after a
\* gap are ignored, and without key(0) the numbered form counts as absent: a
\* filter name with value(1) alone fails with ErrIncompleteFilterNameOnly,
\* and a non-numbered key next to key(1) is parsed as its single value.
C8_NumberedListStopsAtGap ==
    Called =>
        /\ validateErr = nil =>
            /\ op \in CategoryOperations =>
                   fp.categoryIDs = ExpectedValues(params, "categoryId")
            /\ fp.outputSelectors = ExpectedValues(params, "outputSelector")
            /\ [i \in 1..Len(fp.itemFilters) |->
                   [name |-> fp.itemFilters[i].name, values |-> fp.itemFilters[i].values]]
               = ExpectedFilters(params, "itemFilter", ".name", ".value")
            /\ op # "findItemsByProduct" =>
                   [i \in 1..Len(fp.aspectFilters) |->
                       [name |-> fp.aspectFilters[i].aspectName,
                        values |-> fp.aspectFilters[i].aspectValueNames]]
                   = ExpectedFilters(params, "aspectFilter", ".aspectName", ".aspectValueName")
        /\ (/\ PassesUntilItemFilters(op, params)
            /\ \/ NameOnly(params, "itemFilter.name", "itemFilter.value")
               \/ /\ ~Has(params, "itemFilter.name")
                  /\ NameOnly(params, "itemFilter(0).name", "itemFilter(0).value")) =>
               validateErr = "ErrIncompleteFilterNameOnly"
        /\ (/\ PassesUntilAspectFilters(op, params)
            /\ \/ NameOnly(params, "aspectFilter.aspectName", "aspectFilter.aspectValueName")
               \/ /\ ~Has(params, "aspectFilter.aspectName")
                  /\ NameOnly(params, "aspectFilter(0).aspectName",
                              "aspectFilter(0).aspectValueName")) =>
               validateErr = "ErrIncompleteFilterNameOnly"

\* findItemsByKeywords has rejected a filter name that comes with value(1)
\* and value(2) alone.
C8_Witness ==
    /\ op = "findItemsByKeywords"
    /\ Has(params, "itemFilter.name")
    /\ Has(params, "itemFilter.value(1)") /\ Has(params, "itemFilter.value(2)")
    /\ ~Has(params, "itemFilter.value") /\ ~Has(params, "itemFilter.value(0)")
    /\ apiErr = [Err |-> "ErrIncompleteFilterNameOnly", StatusCode |-> 400]

\* ------------------------------------------------------------------------
\* Constraints across the filters of a list
\* ------------------------------------------------------------------------

\* The longest numbered item-filter list of the explored maps.
MaxFilters == 3

\* The numbered filter of index i with the name and the single value of f.
FilterAt(i, f) ==
    (Sprintf("itemFilter", i, ".name") :> f.name)
    @@ (Sprintf("itemFilter", i, ".value") :> f.value)

\* The numbered lists of one to MaxFilters filters drawn from options.
NumberedLists(options) ==
    UNION {Combine([i \in 1..n |-> {FilterAt(i - 1, f) : f \in options}]) : n \in 1..MaxFilters}

SellerGroup == {"Seller", "ExcludeSeller", "TopRatedSellerOnly"}

\* Lists of seller filters and of a filter outside their group.
SellerListMaps ==
    {ValidRequired @@ l :
        l \in NumberedLists({[name |-> "Seller", value |-> "0"],
                             [name |-> "ExcludeSeller", value |-> "0"],
                             [name |-> "TopRatedSellerOnly", value |-> "true"],
                             [name |-> "BestOfferOnly", value |-> "true"]})}

InitSellers == InitWith(SellerListMaps, {findingURL})

SpecSellers == InitSellers /\ [][Next]_vars

\* The names of the numbered item filters of m, from index 0 to the first gap.
NumberedFilterNames(m) ==
    {m[Sprintf("itemFilter", i, ".name")] :
        i \in {k \in 0..(MaxFilters - 1) :
                  \A j \in 0..k : Has(m, Sprintf("itemFilter", j, ".name"))}}

\* C9: on successfully validated parameters the item-filter list holds
\* filters of at most one of the types Seller, ExcludeSeller,
\* TopRatedSellerOnly; a numbered list holding two distinct types of the
\* group fails validation, whatever the order of the filters.
C9_SellerGroupExclusive ==
    Called =>
        /\ validateErr = nil =>
               Cardinality({fp.itemFilters[i].name : i \in 1..Len(fp.itemFilters)}
                           \cap SellerGroup) <= 1
        /\ (/\ ~Has(params, "itemFilter.name")
            /\ Cardinality(NumberedFilterNames(params) \cap SellerGroup) >= 2) =>
               /\ validateErr # nil
               /\ apiErr = [Err |-> validateErr, StatusCode |-> 400]

\* findItemsByKeywords has rejected a list in which a Seller filter follows,
\* at a distance, an ExcludeSeller filter.
C9_Witness ==
    /\ op = "findItemsByKeywords"
    /\ Has(params, "itemFilter(2).name")
    /\ params["itemFilter(0).name"] = "ExcludeSeller"
    /\ params["itemFilter(1).name"] = "BestOfferOnly"
    /\ params["itemFilter(2).name"] = "Seller"
    /\ apiErr = [Err |-> "ErrExcludeSellerCannotBeUsedWithSellers", StatusCode |-> 400]

\* The min/max families: the name of the max filter, of the min filter, and
\* whether the values are prices.
Families ==
    {[max |-> "MaxBids", min |-> "MinBids", price |-> FALSE],
     [max |-> "MaxQuantity", min |-> "MinQuantity", price |-> FALSE],
     [max |-> "FeedbackScoreMax", min |-> "FeedbackScoreMin", price |-> FALSE],
     [max |-> "MaxPrice", min |-> "MinPrice", price |-> TRUE]}

\* Lists of max and min filters of one family.
MinMaxListMaps ==
    {ValidRequired @@ l :
        l \in UNION {NumberedLists({[name |-> n, value |-> v] :
                                       n \in {f.max, f.min}, v \in {"1", "5"}}) :
                     f \in Families}}

InitMinMax == InitWith(MinMaxListMaps, {findingURL})

SpecMinMax == InitMinMax /\ [][Next]_vars

\* The value a is less than the value b, as integers or as prices.
ValueLess(a, b, price) ==
    IF price THEN FloatLess(ParseFloat(a), ParseFloat(b)) ELSE Atoi(a) < Atoi(b)

\* C10: on successfully validated parameters, in each min/max family every
\* max filter of the item-filter list has a value greater than or equal to
\* the value of every min filter of the family in the list, whichever comes
\* first and also when a filter type occurs more than once.
C10_MaxNotBelowMin ==
    (Called /\ validateErr = nil) =>
        \A f \in Families : \A i, j \in 1..Len(fp.itemFilters) :
            (fp.itemFilters[i].name = f.max /\ fp.itemFilters[j].name = f.min) =>
                ~ValueLess(fp.itemFilters[i].values[1], fp.itemFilters[j].values[1], f.price)

\* ------------------------------------------------------------------------
\* Item filters with one or two values
\* ------------------------------------------------------------------------

\* Filter names, each with a value its type accepts and one it rejects.
TypedValues ==
    {[name |-> "CharityOnly", good |-> "true", bad |-> "maybe"],
     [name |-> "TopRatedSellerOnly", good |-> "false", bad |-> "1"],
     [name |-> "AvailableTo", good |-> "US", bad |-> "us"],
     [name |-> "Condition", good |-> "1000", bad |-> "1"],
     [name |-> "Currency", good |-> "EUR", bad |-> "ZZZ"],
     [name |-> "EndTimeFrom", good |-> "2025-01-01T00:00:00Z", bad |-> "2020-01-01T00:00:00Z"],
     [name |-> "ModTimeFrom", good |-> "2020-01-01T00:00:00Z", bad |-> "2025-01-01T00:00:00Z"],
     [name |-> "ExpeditedShippingType", good |-> "Expedited", bad |-> "Slow"],
     [name |-> "ListedIn", good |-> "EBAY-US", bad |-> "EBAY"],
     [name |-> "MaxDistance", good |-> "5", bad |-> "4"],
     [name |-> "MaxHandlingTime", good |-> "1", bad |-> "0"],
     [name |-> "MaxBids", good |-> "0", bad |-> "-1"],
     [name |-> "MinQuantity", good |-> "1", bad |-> "0"],
     [name |-> "MaxPrice", good |-> "1.5", bad |-> "-1.5"],
     [name |-> "ValueBoxInventory", good |-> "1", bad |-> "true"],
     [name |-> "ExcludeCategory", good |-> "1", bad |-> "x"],
     [name |-> "LocatedIn", good |-> "US", bad |-> "USA"],
     [name |-> "ListingType", good |-> "Auction", bad |-> "Sale"],
     [name |-> "SellerBusinessType", good |-> "Private", bad |-> "Public"]}

\* The values of one filter of prefix pre: a single value, or value(0) and
\* value(1), each accepted or rejected by the type of t.
ValueShapes(pre, t) ==
    {(pre \o ".value") :> v : v \in {t.good, t.bad}}
    \cup {((pre \o ".value(0)") :> v) @@ ((pre \o ".value(1)") :> w) :
             v \in {t.good, t.bad}, w \in {t.good, t.bad}}

\* One item filter, non-numbered or numbered, with one or two values, next to
\* valid required fields and a buyer postal code.
TypedValueMaps ==
    UNION {{ValidRequired @@ ("buyerPostalCode" :> "111") @@ ((pre \o ".name") :> t.name) @@ vs :
               vs \in ValueShapes(pre, t)} :
           pre \in {"itemFilter", "itemFilter(0)"}, t \in TypedValues}

InitValues == InitWith(TypedValueMaps, {findingURL})

SpecValues == InitValues /\ [][Next]_vars

BooleanFilters ==
    {"AuthorizedSellerOnly", "BestOfferOnly", "CharityOnly", "ExcludeAutoPay",
     "FreeShippingOnly", "HideDuplicateItems", "LocalPickupOnly", "LotsOnly",
     "ReturnsAcceptedOnly", "SoldItemsOnly", "TopRatedSellerOnly", "LocalSearchOnly"}

\* The constraint the type of the filter called name puts on one value.
ValueConstraint(name, value, clock) ==
    CASE name \in BooleanFilters -> value \in {"true", "false"}
      [] name \in {"AvailableTo", "LocatedIn"} -> isValidCountryCode(value)
      [] name = "Condition" -> isValidCondition(value)
      [] name = "Currency" -> Contains(validCurrencyIDs, value)
      [] name \in {"EndTimeFrom", "EndTimeTo", "StartTimeFrom", "StartTimeTo"} ->
            isValidDateTime(value, TRUE, clock)
      [] name = "ModTimeFrom" -> isValidDateTime(value, FALSE, clock)
      [] name \in {"ExcludeCategory", "FeedbackScoreMax", "FeedbackScoreMin", "MaxBids",
                   "MinBids"} -> isValidIntegerInRange(value, 0)
      [] name = "ExpeditedShippingType" -> value \in {"Expedited", "OneDayShipping"}
      [] name = "ListedIn" -> Contains(validGlobalIDs, value)
      [] name = "ListingType" -> Contains(validListingTypes, value)
      [] name = "MaxDistance" -> isValidIntegerInRange(value, smallestMaxDistance)
      [] name \in {"MaxHandlingTime", "MaxQuantity", "MinQuantity"} ->
            isValidIntegerInRange(value, 1)
      [] name \in {"MaxPrice", "MinPrice"} ->
            ~ParseFloat(value).err /\ ~FloatLess(ParseFloat(value), FloatZero)
      [] name = "SellerBusinessType" -> value \in {"Business", "Private"}
      [] name = "ValueBoxInventory" -> value \in {"1", "0"}
      [] OTHER -> TRUE

\* C11: on successfully validated parameters every value of every item
\* filter, at each value index and not only the first, satisfies the
\* constraint of the type of its filter.
C11_EveryValueConstrained ==
    (Called /\ validateErr = nil) =>
        \A i \in 1..Len(fp.itemFilters) : \A k \in 1..Len(fp.itemFilters[i].values) :
            ValueConstraint(fp.itemFilters[i].name, fp.itemFilters[i].values[k], now)

\* The same for the first value of every filter, the one the type checks of
\* handleItemFilterType read.
C11_FirstValueConstrained ==
    (Called /\ validateErr = nil) =>
        \A i \in 1..Len(fp.itemFilters) :
            ValueConstraint(fp.itemFilters[i].name, fp.itemFilters[i].values[1], now)

\* ------------------------------------------------------------------------
\* Local search: LocalSearchOnly, MaxDistance and the buyer postal code
\* ------------------------------------------------------------------------

\* The buyer postal code: absent, valid, or too short.
PostalCodes == {EmptyMap, "buyerPostalCode" :> "111", "buyerPostalCode" :> "11"}

LocalFilters ==
    {[name |-> "LocalSearchOnly", value |-> "true"],
     [name |-> "LocalSearchOnly", value |-> "yes"],
     [name |-> "MaxDistance", value |-> "5"],
     [name |-> "MaxDistance", value |-> "4"],
     [name |-> "BestOfferOnly", value |-> "true"]}

\* A non-numbered LocalSearchOnly or MaxDistance filter, alone or followed by
\* a numbered MaxDistance filter of index 1.
NonNumberedLocal ==
    {("itemFilter.name" :> f.name) @@ ("itemFilter.value" :> f.value) @@ g :
        f \in LocalFilters, g \in {EmptyMap, FilterAt(1, [name |-> "MaxDistance", value |-> "5"])}}

\* Numbered lists and non-numbered filters of local search, with the three
\* forms of the postal code.
LocalSearchMaps ==
    {ValidRequired @@ p @@ l :
        p \in PostalCodes, l \in NumberedLists(LocalFilters) \cup NonNumberedLocal}

InitLocal == InitWith(LocalSearchMaps, {findingURL})

SpecLocal == InitLocal /\ [][Next]_vars

\* C12: on successfully validated parameters a LocalSearchOnly filter implies
\* a buyer postal code of at least 3 characters, a MaxDistance filter in the
\* same list and a value "true" or "false"; a MaxDistance filter implies a
\* buyer postal code and an integer value of at least 5; a LocalSearchOnly
\* filter in non-numbered syntax never validates.
C12_LocalSearchPreconditions ==
    Called =>
        /\ validateErr = nil =>
              \A i \in 1..Len(fp.itemFilters) :
                 /\ fp.itemFilters[i].name = "LocalSearchOnly" =>
                       /\ Has(params, "buyerPostalCode")
                       /\ Len(params["buyerPostalCode"]) >= 3
                       /\ fp.buyerPostalCode = Some(params["buyerPostalCode"])
                       /\ \E j \in 1..Len(fp.itemFilters) : fp.itemFilters[j].name = "MaxDistance"
                       /\ fp.itemFilters[i].values[1] \in {"true", "false"}
                 /\ fp.itemFilters[i].name = "MaxDistance" =>
                       /\ Has(params, "buyerPostalCode")
                       /\ ~AtoiErr(fp.itemFilters[i].values[1])
                       /\ Atoi(fp.itemFilters[i].values[1]) >= 5
        /\ (Has(params, "itemFilter.name") /\ params["itemFilter.name"] = "LocalSearchOnly") =>
              /\ validateErr # nil
              /\ apiErr = [Err |-> validateErr, StatusCode |-> 400]

\* findItemsAdvanced has validated a list in which LocalSearchOnly comes
\* before the MaxDistance filter it needs.
C12_Witness ==
    /\ op = "findItemsAdvanced"
    /\ apiErr.Err \notin {"ErrBuyerPostalCodeMissing", "ErrMaxDistanceMissing"}
    /\ Len(fp.itemFilters) = 2
    /\ fp.itemFilters[1].name = "LocalSearchOnly"
    /\ fp.itemFilters[2].name = "MaxDistance"
    /\ fp.buyerPostalCode = Some("111")

\* findItemsByKeywords has rejected a non-numbered LocalSearchOnly filter
\* although a postal code and a MaxDistance filter of index 1 are there.
C12_WitnessNonNumbered ==
    /\ op = "findItemsByKeywords"
    /\ Has(params, "itemFilter.name") /\ params["itemFilter.name"] = "LocalSearchOnly"
    /\ Has(params, "itemFilter(1).name")
    /\ Has(params, "buyerPostalCode")
    /\ apiErr = [Err |-> "ErrMaxDistanceMissing", StatusCode |-> 400]

\* ------------------------------------------------------------------------
\* Sort orders and their preconditions
\* ------------------------------------------------------------------------

\* The 12 sort orders of validateSortOrder.
SortOrders ==
    {"BestMatch", "BidCountFewest", "BidCountMost", "CountryAscending", "CountryDescending",
     "CurrentPriceHighest", "DistanceNearest", "EndTimeSoonest", "PricePlusShippingHighest",
     "PricePlusShippingLowest", "StartTimeNewest", "WatchCountDecreaseSort"}

\* Sort orders with and without a precondition, and two values outside the 12.
SortOrderValues ==
    {"BestMatch", "BidCountFewest", "BidCountMost", "DistanceNearest", "Nearest",
     "bidcountmost"}

\* Numbered lists of listing-type filters and one other filter, and
\* non-numbered listing-type filters of two values.
ListingLists ==
    NumberedLists({[name |-> "ListingType", value |-> "Auction"],
                   [name |-> "ListingType", value |-> "AuctionWithBIN"],
                   [name |-> "ListingType", value |-> "FixedPrice"],
                   [name |-> "BestOfferOnly", value |-> "true"]})
    \cup {("itemFilter.name" :> "ListingType") @@ ("itemFilter.value(0)" :> v)
          @@ ("itemFilter.value(1)" :> w) :
             v \in {"FixedPrice", "AuctionWithBIN"}, w \in {"Auction", "Classified"}}
    \cup {EmptyMap}

SortOrderMaps ==
    {ValidRequired @@ p @@ ("sortOrder" :> s) @@ l :
        p \in PostalCodes, s \in SortOrderValues, l \in ListingLists}

InitSort == InitWith(SortOrderMaps, {findingURL})

SpecSort == InitSort /\ [][Next]_vars

\* Some ListingType filter of the list has the value Auction.
HasAuctionListing(itemFilters) ==
    \E i \in 1..Len(itemFilters) :
        /\ itemFilters[i].name = "ListingType"
        /\ \E k \in 1..Len(itemFilters[i].values) : itemFilters[i].values[k] = "Auction"

\* The required fields of operation o and every field it checks before the
\* sort order pass on m.
PassesUntilSortOrder(o, m, clock) ==
    /\ RequiredFieldsPass(o, m)
    /\ FirstError(SubSeq(OrderedErrs(o, m, clock), 1, Len(OrderedErrs(o, m, clock)) - 1)) = nil

\* C13: on successfully validated parameters a sortOrder is one of the 12
\* names, BidCountFewest and BidCountMost come with a ListingType filter
\* holding the value Auction, and DistanceNearest comes with a valid buyer
\* postal code; when the fields checked before the sort order pass, a missing
\* Auction listing gives ErrAuctionListingMissing, a missing postal code
\* ErrBuyerPostalCodeMissing and a name outside the 12
\* ErrUnsupportedSortOrderType.
C13_SortOrderPreconditions ==
    (Called /\ Has(params, "sortOrder")) =>
        /\ validateErr = nil =>
              /\ fp.sortOrder = Some(params["sortOrder"])
              /\ params["sortOrder"] \in SortOrders
              /\ params["sortOrder"] \in {"BidCountFewest", "BidCountMost"} =>
                    HasAuctionListing(fp.itemFilters)
              /\ params["sortOrder"] = "DistanceNearest" =>
                    /\ Has(params, "buyerPostalCode")
                    /\ Len(params["buyerPostalCode"]) >= 3
                    /\ fp.buyerPostalCode = Some(params["buyerPostalCode"])
        /\ PassesUntilSortOrder(op, params, now) =>
              /\ (/\ params["sortOrder"] \in {"BidCountFewest", "BidCountMost"}
                  /\ ~HasAuctionListing(processItemFilters(params, now).val)) =>
                    apiErr = [Err |-> "ErrAuctionListingMissing", StatusCode |-> 400]
              /\ (params["sortOrder"] = "DistanceNearest" /\ ~Has(params, "buyerPostalCode")) =>
                    apiErr = [Err |-> "ErrBuyerPostalCodeMissing", StatusCode |-> 400]
              /\ params["sortOrder"] \notin SortOrders =>
                    apiErr = [Err |-> "ErrUnsupportedSortOrderType", StatusCode |-> 400]

\* findItemsByCategory has rejected BidCountMost on a list whose only auction
\* listing type is AuctionWithBIN.
C13_Witness ==
    /\ op = "findItemsByCategory"
    /\ params["sortOrder"] = "BidCountMost"
    /\ Has(params, "itemFilter(1).name") /\ ~Has(params, "itemFilter(2).name")
    /\ params["itemFilter(0).value"] = "FixedPrice"
    /\ params["itemFilter(1).value"] = "AuctionWithBIN"
    /\ apiErr = [Err |-> "ErrAuctionListingMissing", StatusCode |-> 400]

\* findItemsByCategory has validated BidCountFewest on a list whose second
\* filter is an Auction listing type.
C13_WitnessValidated ==
    /\ op = "findItemsByCategory"
    /\ fp.sortOrder = Some("BidCountFewest")
    /\ Len(fp.itemFilters) = 2
    /\ fp.itemFilters[2] = [name |-> "ListingType", values |-> <<"Auction">>,
                            paramName |-> None, paramValue |-> None]
    /\ apiErr = NoAPIError

\* ------------------------------------------------------------------------
\* Price filters and their currency qualifier
\* ------------------------------------------------------------------------

\* The paramName and paramValue keys of a filter of prefix pre: none, a
\* currency, a name without a value, a value without a name, a name other
\* than Currency, a currency outside the list.
Qualifiers(pre) ==
    {EmptyMap,
     ((pre \o ".paramName") :> "Currency") @@ ((pre \o ".paramValue") :> "EUR"),
     ((pre \o ".paramName") :> "Currency") @@ ((pre \o ".paramValue") :> "USD"),
     (pre \o ".paramName") :> "Currency",
     (pre \o ".paramValue") :> "EUR",
     ((pre \o ".paramName") :> "Unit") @@ ((pre \o ".paramValue") :> "EUR"),
     ((pre \o ".paramName") :> "Currency") @@ ((pre \o ".paramValue") :> "ZZZ")}

\* A filter of prefix pre: a price filter or a boolean filter, with each of
\* the qualifiers.
QualifiedFilters(pre) ==
    {((pre \o ".name") :> f.name) @@ ((pre \o ".value") :> f.value) @@ q :
        f \in {[name |-> "MaxPrice", value |-> "5"], [name |-> "MaxPrice", value |-> "1.5"],
               [name |-> "MinPrice", value |-> "1.5"], [name |-> "MinPrice", value |-> "5"],
               [name |-> "BestOfferOnly", value |-> "true"]},
        q \in Qualifiers(pre)}

\* One non-numbered filter, or the numbered filters of index 0 and 1.
QualifiedMaps ==
    {ValidRequired @@ f : f \in QualifiedFilters("itemFilter")}
    \cup {ValidRequired @@ f @@ g :
             f \in QualifiedFilters("itemFilter(0)"), g \in QualifiedFilters("itemFilter(1)")}

InitPrice == InitWith(QualifiedMaps, {findingURL})

SpecPrice == InitPrice /\ [][Next]_vars

\* The query q holds the parameter k with the value v.
QueryHas(q, k, v) == \E n \in 1..Len(q) : q[n] = <<k, v>>

\* The keys of the parameters of the query q.
QueryKeys(q) == {q[n][1] : n \in 1..Len(q)}

\* The caller supplied a currency qualifier on the numbered filter i.
QualifierSupplied(m, i) ==
    /\ Has(m, Sprintf("itemFilter", i, ".paramName"))
    /\ Has(m, Sprintf("itemFilter", i, ".paramValue"))

\* The query q carries the numbered filter i of m with its name, its value
\* and the currency qualifier supplied on it, and no qualifier if none was.
CarriesFilter(q, m, i) ==
    /\ QueryHas(q, Sprintf("itemFilter", i, ".name"), m[Sprintf("itemFilter", i, ".name")])
    /\ QueryHas(q, Sprintf("itemFilter", i, ".value(0)"), m[Sprintf("itemFilter", i, ".value")])
    /\ IF QualifierSupplied(m, i)
       THEN /\ QueryHas(q, Sprintf("itemFilter", i, ".paramName"), "Currency")
            /\ QueryHas(q, Sprintf("itemFilter", i, ".paramValue"),
                        m[Sprintf("itemFilter", i, ".paramValue")])
       ELSE /\ Sprintf("itemFilter", i, ".paramName") \notin QueryKeys(q)
            /\ Sprintf("itemFilter", i, ".paramValue") \notin QueryKeys(q)

\* The numbered filters 0 and 1 of m are a MaxPrice and a MinPrice filter,
\* in either order.
PricePair(m) ==
    /\ Has(m, "itemFilter(0).name") /\ Has(m, "itemFilter(1).name")
    /\ {m["itemFilter(0).name"], m["itemFilter(1).name"]} = {"MaxPrice", "MinPrice"}

\* C14: when a validated request holds a MaxPrice and a MinPrice filter with
\* max >= min and a currency qualifier was supplied on either of the two, the
\* query of the request carries both filters, each with exactly the currency
\* qualifier that was supplied on it: a filter supplied without a qualifier
\* is carried without one, and the two currencies need not be the same.
C14_PricePairSerialized ==
    (/\ Called /\ validateErr = nil /\ req # None
     /\ PricePair(params)
     /\ QualifierSupplied(params, 0) \/ QualifierSupplied(params, 1)) =>
        /\ CarriesFilter(req[1], params, 0)
        /\ CarriesFilter(req[1], params, 1)

\* findItemsByProduct has sent a request with a MinPrice filter without a
\* qualifier and a MaxPrice filter in EUR.
C14_Witness ==
    /\ op = "findItemsByProduct"
    /\ req # None
    /\ Len(fp.itemFilters) = 2
    /\ fp.itemFilters[1] = [name |-> "MinPrice", values |-> <<"1.5">>,
                            paramName |-> None, paramValue |-> None]
    /\ fp.itemFilters[2] = [name |-> "MaxPrice", values |-> <<"5">>,
                            paramName |-> Some("Currency"), paramValue |-> Some("EUR")]

\* The statement of C14 with the qualifiers of the two filters matching each
\* other: under the same conditions the query carries a currency qualifier on
\* both filters, and the same currency on both.
C14_AsStated ==
    (/\ Called /\ validateErr = nil /\ req # None
     /\ PricePair(params)
     /\ QualifierSupplied(params, 0) \/ QualifierSupplied(params, 1)) =>
        /\ QueryHas(req[1], "itemFilter(0).paramName", "Currency")
        /\ QueryHas(req[1], "itemFilter(1).paramName", "Currency")
        /\ \E c \in {"EUR", "USD"} :
              /\ QueryHas(req[1], "itemFilter(0).paramValue", c)
              /\ QueryHas(req[1], "itemFilter(1).paramValue", c)

\* A named filter of m, non-numbered or numbered 0 or 1, has one of paramName
\* and paramValue without the other.
IncompleteQualifier(m) ==
    \/ /\ Has(m, "itemFilter.name")
       /\ Has(m, "itemFilter.paramName") # Has(m, "itemFilter.paramValue")
    \/ \E i \in 0..1 :
          /\ \A j \in 0..i : Has(m, Sprintf("itemFilter", j, ".name"))
          /\ Has(m, Sprintf("itemFilter", i, ".paramName"))
             # Has(m, Sprintf("itemFilter", i, ".paramValue"))

\* paramName and paramValue of every validated filter are both present or
\* both absent, and one without the other fails validation.
QualifierPaired ==
    Called =>
        /\ validateErr = nil =>
              \A i \in 1..Len(fp.itemFilters) :
                 (fp.itemFilters[i].paramName = None) <=> (fp.itemFilters[i].paramValue = None)
        /\ IncompleteQualifier(params) =>
              apiErr = [Err |-> "ErrIncompleteItemFilterParam", StatusCode |-> 400]

\* C15: on successfully validated parameters every item filter has paramName
\* and paramValue both present or both absent, one without the other on a
\* named filter failing with ErrIncompleteItemFilterParam, and they are
\* present only on MaxPrice and MinPrice filters, where paramName is
\* "Currency" and paramValue one of the valid currency IDs.
C15_QualifierOnlyOnPriceFilters ==
    /\ QualifierPaired
    /\ (Called /\ validateErr = nil) =>
          \A i \in 1..Len(fp.itemFilters) :
             fp.itemFilters[i].paramName # None =>
                /\ fp.itemFilters[i].name \in {"MaxPrice", "MinPrice"}
                /\ fp.itemFilters[i].paramName = Some("Currency")
                /\ Contains(validCurrencyIDs, fp.itemFilters[i].paramValue[1])

\* The same with the qualifier constrained on price filters only.
C15_QualifierOfPriceFilters ==
    /\ QualifierPaired
    /\ (Called /\ validateErr = nil) =>
          \A i \in 1..Len(fp.itemFilters) :
             (/\ fp.itemFilters[i].paramName # None
              /\ fp.itemFilters[i].name \in {"MaxPrice", "MinPrice"}) =>
                /\ fp.itemFilters[i].paramName = Some("Currency")
                /\ Contains(validCurrencyIDs, fp.itemFilters[i].paramValue[1])

\* ------------------------------------------------------------------------
\* Listing types
\* ------------------------------------------------------------------------

\* The six listing types and a value outside them.
ListingValues ==
    {"Auction", "AuctionWithBIN", "Classified", "FixedPrice", "StoreInventory", "All", "Sale"}

\* The value keys attr(0), attr(1), ... of one to MaxIndex + 1 values drawn
\* from vals.
NumberedValues(attr, vals) ==
    UNION {Combine([j \in 1..n |-> {Sprintf(attr, j - 1, "") :> v : v \in vals}]) :
           n \in 1..(MaxIndex + 1)}

\* One ListingType filter, non-numbered or numbered, with every list of
\* values.
ListingTypeMaps ==
    UNION {{ValidRequired @@ ((pre \o ".name") :> "ListingType") @@ vs :
               vs \in NumberedValues(pre \o ".value", ListingValues)
                      \cup {(pre \o ".value") :> v : v \in ListingValues}} :
           pre \in {"itemFilter", "itemFilter(0)"}}

InitListing == InitWith(ListingTypeMaps, {findingURL})

SpecListing == InitListing /\ [][Next]_vars

\* The values of the only item filter of m.
OnlyFilterValues(m) ==
    IF Has(m, "itemFilter.name") THEN ExpectedValues(m, "itemFilter.value")
    ELSE ExpectedValues(m, "itemFilter(0).value")

\* The rule of the listing types, on the set of the values and their number.
ListingTypesAllowed(values) ==
    LET set == {values[k] : k \in 1..Len(values)} IN
    /\ set \subseteq {"Auction", "AuctionWithBIN", "Classified", "FixedPrice",
                      "StoreInventory", "All"}
    /\ Cardinality(set) = Len(values)
    /\ "All" \in set => Len(values) = 1
    /\ ~({"Auction", "AuctionWithBIN"} \subseteq set)

\* C16: a ListingType item filter validates if and only if every value is one
\* of the six listing types, no value occurs twice, All occurs only as the
\* sole value, and Auction and AuctionWithBIN do not both occur, whatever the
\* order of the values.
C16_ListingTypes ==
    Called =>
        /\ (validateErr = nil) <=> ListingTypesAllowed(OnlyFilterValues(params))
        /\ validateErr = nil =>
              /\ Len(fp.itemFilters) = 1
              /\ fp.itemFilters[1].name = "ListingType"
              /\ fp.itemFilters[1].values = OnlyFilterValues(params)
        /\ validateErr # nil =>
              validateErr \in {"ErrInvalidAllListingType", "ErrInvalidListingType",
                               "ErrDuplicateListingType", "ErrInvalidAuctionListingTypes"}

\* findItemsInEBayStores has rejected a ListingType filter whose values are
\* All followed by another listing type.
C16_Witness ==
    /\ op = "findItemsIneBayStores"
    /\ Has(params, "itemFilter(0).value(1)")
    /\ params["itemFilter(0).value(0)"] = "All"
    /\ params["itemFilter(0).value(1)"] = "FixedPrice"
    /\ apiErr = [Err |-> "ErrInvalidAllListingType", StatusCode |-> 400]

\* ------------------------------------------------------------------------
\* Date-time filters
\* ------------------------------------------------------------------------

DateTimeFilters == {"EndTimeFrom", "EndTimeTo", "StartTimeFrom", "StartTimeTo", "ModTimeFrom"}

\* Timestamps one second before Clock, at Clock and one second after it, in
\* UTC and with numeric offsets, and values time.Parse rejects.
Timestamps ==
    {"2024-06-01T11:59:59Z", "2024-06-01T12:00:00Z", "2024-06-01T12:00:01Z",
     "2023-12-31T23:59:59Z", "2025-01-01T00:00:00Z",
     "2024-06-01T12:00:01+00:00", "2024-06-01T08:00:01-04:00",
     "2024-06-01T07:59:59-04:00", "2024-02-30T12:00:00Z", "2024-06-01 12:00:01Z",
     "not a timestamp"}

\* One date-time filter, non-numbered or numbered, with every timestamp.
DateTimeMaps ==
    {ValidRequired @@ ((pre \o ".name") :> name) @@ ((pre \o ".value") :> value) :
        pre \in {"itemFilter", "itemFilter(0)"}, name \in DateTimeFilters, value \in Timestamps}

InitTime == InitWith(DateTimeMaps, {findingURL})

SpecTime == InitTime /\ [][Next]_vars

\* The name and the value of the only item filter of m.
OnlyFilterName(m) ==
    IF Has(m, "itemFilter.name") THEN m["itemFilter.name"] ELSE m["itemFilter(0).name"]

OnlyFilterValue(m) ==
    IF Has(m, "itemFilter.name") THEN m["itemFilter.value"] ELSE m["itemFilter(0).value"]

\* The UTC timestamps of Timestamps, by their place relative to Clock.
LaterThanClock == {"2024-06-01T12:00:01Z", "2025-01-01T00:00:00Z"}

EarlierThanClock == {"2024-06-01T11:59:59Z", "2023-12-31T23:59:59Z"}

EqualToClock == {"2024-06-01T12:00:00Z"}

\* C17: an EndTimeFrom, EndTimeTo, StartTimeFrom or StartTimeTo value is
\* accepted only if it is an RFC3339 UTC timestamp strictly later than the
\* validation time, a ModTimeFrom value only if it is one strictly earlier,
\* and a timestamp equal to the validation time is rejected with
\* ErrInvalidDateTime.
C17_StrictlyLaterOrEarlier ==
    Called /\ now = Clock =>
        /\ validateErr = nil =>
              IF OnlyFilterName(params) = "ModTimeFrom"
              THEN OnlyFilterValue(params) \in EarlierThanClock
              ELSE OnlyFilterValue(params) \in LaterThanClock
        /\ OnlyFilterValue(params) \in EqualToClock => validateErr = "ErrInvalidDateTime"

\* What the code does: the same with the timestamp equal to the validation
\* time accepted in both directions, and ErrInvalidDateTime for every other
\* value.
C17_NotEarlierOrNotLater ==
    Called /\ now = Clock =>
        /\ validateErr = nil <=>
              IF OnlyFilterName(params) = "ModTimeFrom"
              THEN OnlyFilterValue(params) \in EarlierThanClock \cup EqualToClock
              ELSE OnlyFilterValue(params) \in LaterThanClock \cup EqualToClock
        /\ validateErr # nil => validateErr = "ErrInvalidDateTime"

\* ------------------------------------------------------------------------
\* The number of category IDs
\* ------------------------------------------------------------------------

\* The largest number of indexed category IDs of a request.
MaxCategories == 4

\* Category IDs: of 1 and of 10 digits, of 11 digits, and not a number.
CategoryIDValues == {"1", "1234567890", "12345678901", "abc"}

\* The requests with categoryId(0)..categoryId(n-1) for every n up to
\* MaxCategories and every choice of the IDs.
CategoryCountMaps ==
    UNION {{ValidRequiredNoCategory @@ f :
               f \in Combine([j \in 1..n |->
                        {Sprintf("categoryId", j - 1, "") :> v : v \in CategoryIDValues}])} :
           n \in 0..MaxCategories}

InitCategories == InitWith(CategoryCountMaps, {findingURL})

SpecCategories == InitCategories /\ [][Next]_vars

\* The IDs categoryId(0), categoryId(1), ... of m, which holds no other
\* category key.
IndexedCategoryIDs(m) ==
    [j \in 1..Cardinality({i \in 0..MaxCategories : Has(m, Sprintf("categoryId", i, ""))}) |->
        m[Sprintf("categoryId", j - 1, "")]]

\* Every ID is a string of 1 to 10 digits.
NumericIDs(ids) ==
    \A j \in 1..Len(ids) : Len(ids[j]) \in 1..10 /\ AllDigits(ids[j])

\* C18: a request with exactly categoryId(0)..categoryId(n-1), each a string
\* of 1 to 10 digits, validates for n = 1, 2, 3 and keeps the n IDs; with a
\* fourth it fails with ErrMaxCategoryIDs; a validated request never carries
\* more than 3 category IDs.
C18_AtMostThreeCategoryIDs ==
    Called =>
        /\ validateErr = nil => Len(fp.categoryIDs) <= 3
        /\ op \in CategoryOperations /\ NumericIDs(IndexedCategoryIDs(params)) =>
              /\ Len(IndexedCategoryIDs(params)) \in 1..3 =>
                    validateErr = nil /\ fp.categoryIDs = IndexedCategoryIDs(params)
              /\ Len(IndexedCategoryIDs(params)) >= 4 => validateErr = "ErrMaxCategoryIDs"

\* findItemsByCategory has rejected four category IDs of 1 to 10 digits.
C18_Witness ==
    /\ op = "findItemsByCategory"
    /\ Len(IndexedCategoryIDs(params)) = 4
    /\ NumericIDs(IndexedCategoryIDs(params))
    /\ params["categoryId(3)"] = "1234567890"
    /\ apiErr = [Err |-> "ErrMaxCategoryIDs", StatusCode |-> 400]

\* findItemsAdvanced has validated three category IDs of 1 to 10 digits.
C18_WitnessThree ==
    /\ op = "findItemsAdvanced"
    /\ validateErr = nil
    /\ fp.categoryIDs = <<"1234567890", "1", "1234567890">>

\* ------------------------------------------------------------------------
\* The length of the keywords
\* ------------------------------------------------------------------------

\* The largest number of tokens the keywords are joined from.
MaxTokens == 2

\* The string of n letters a.
RECURSIVE Letters(_)
Letters(n) ==
    IF n = 0 THEN ""
    ELSE IF n % 2 = 1 THEN Letters(n - 1) \o "a"
    ELSE Letters(n \div 2) \o Letters(n \div 2)

\* tokens joined with the separator sep.
RECURSIVE Joined(_, _)
Joined(tokens, sep) ==
    IF Len(tokens) = 0 THEN ""
    ELSE IF Len(tokens) = 1 THEN tokens[1]
    ELSE tokens[1] \o sep \o Joined(Tail(tokens), sep)

\* n characters: tokens of 98 letters with a space after each, and a shorter
\* one at the end.
RECURSIVE Chunked(_)
Chunked(n) ==
    IF n <= 98 THEN Letters(n) ELSE Letters(98) \o " " \o Chunked(n - 99)

\* Keywords with the lengths and the token lengths around the limits: one
\* token, separators only, tokens of 1, 98 and 99 letters joined with each
\* separator, and long ones of tokens of at most 98 letters.
KeywordValues ==
    {Letters(n) : n \in {0, 1, 2, 12, 98, 99, 350, 351}}
    \cup {",", ",,", "a,", "+a", "(a)", Letters(99) \o "@", "\"" \o Letters(98) \o "\""}
    \cup {Chunked(n) : n \in {349, 350, 351}}
    \cup {Letters(99) \o " " \o Chunked(n) : n \in {250, 251}}
    \cup UNION {{Joined(tokens, sep) :
                    tokens \in [1..k -> {Letters(n) : n \in {1, 98, 99}}],
                    sep \in specialChars} :
                k \in 2..MaxTokens}

KeywordMaps == {("keywords" :> k) @@ ValidRequired : k \in KeywordValues}

InitKeywords == InitWith(KeywordMaps, {findingURL})

SpecKeywords == InitKeywords /\ [][Next]_vars

\* The keywords k have n characters in a row none of which is a separator.
HasToken(k, n) ==
    \E i \in 1..(Len(k) - n + 1) :
        \A j \in i..(i + n - 1) :
            Char(k, j) \notin {" ", ",", "(", ")", "\"", "-", "*", "@", "+"}

\* The operations that read the keywords.
KeywordOperations == {"findItemsByKeywords", "findItemsAdvanced", "findItemsIneBayStores"}

\* C19: keywords validate if and only if their length is between 2 and 350
\* and every token between the separators space , ( ) " - * @ + has at most
\* 98 characters; a length outside the range fails with
\* ErrInvalidKeywordsLength and, with the length in range, a token of 99 or
\* more characters fails with ErrInvalidKeywordLength.
C19_KeywordsLengths ==
    Called /\ op \in KeywordOperations =>
        LET k == params["keywords"] IN
        /\ validateErr = nil <=> (Len(k) \in 2..350 /\ ~HasToken(k, 99))
        /\ validateErr = nil => fp.keywords = Some(k)
        /\ Len(k) \notin 2..350 => validateErr = "ErrInvalidKeywordsLength"
        /\ Len(k) \in 2..350 /\ HasToken(k, 99) => validateErr = "ErrInvalidKeywordLength"

\* findItemsByKeywords has validated keywords of 350 characters, of tokens of
\* at most 98.
C19_Witness ==
    /\ op = "findItemsByKeywords"
    /\ Len(params["keywords"]) = 350
    /\ HasToken(params["keywords"], 98) /\ ~HasToken(params["keywords"], 99)
    /\ validateErr = nil
    /\ fp.keywords = Some(params["keywords"])

\* findItemsAdvanced has rejected keywords of two tokens for the second one,
\* of 99 characters after a hyphen.
C19_WitnessToken ==
    /\ op = "findItemsAdvanced"
    /\ params["keywords"] = Letters(1) \o "-" \o Letters(99)
    /\ apiErr = [Err |-> "ErrInvalidKeywordLength", StatusCode |-> 400]

\* ------------------------------------------------------------------------
\* ISBN product IDs
\* ------------------------------------------------------------------------

\* The characters an ISBN is varied with.
ISBNChars == Digits \cup {"X", "x", "-"}

\* Product IDs around the ISBNs 0131103628, 802510897X and 9780131101630:
\* every first and every last character, X at other places, and the lengths
\* next to 10 and 13.
ISBNValues ==
    {"013110362" \o c : c \in ISBNChars}
    \cup {"802510897" \o c : c \in ISBNChars}
    \cup {c \o "131103628" : c \in ISBNChars}
    \cup {"978013110163" \o c : c \in ISBNChars}
    \cup {c \o "780131101630" : c \in ISBNChars}
    \cup {"886154142X", "9861541429", "X00000000X", "01311X3628", "0000000000",
          "0000000000000", "97801311X1630", "9780306406157", "0306406152",
          "", "0", "013110362", "01311036280", "978013110163", "97801311016300"}

ISBNMaps ==
    {("productId.@type" :> "ISBN") @@ ("productId" :> v) @@ ValidRequired : v \in ISBNValues}

InitISBN == InitWith(ISBNMaps, {findingURL})

SpecISBN == InitISBN /\ [][Next]_vars

\* The worth of character i of s in an ISBN of 10 characters, 11 standing for
\* a character that is worth nothing: X is worth 10 as the tenth character.
ISBN10Digit(s, i) ==
    IF Char(s, i) \in Digits THEN DigitVal(Char(s, i))
    ELSE IF i = 10 /\ Char(s, i) = "X" THEN 10
    ELSE 11

\* The rule of the ISBN of 10 characters.
ISBN10Accepted(s) ==
    /\ \A i \in 1..9 : Char(s, i) \in Digits
    /\ Char(s, 10) \in Digits \cup {"X"}
    /\ (10 * ISBN10Digit(s, 1) + 9 * ISBN10Digit(s, 2) + 8 * ISBN10Digit(s, 3)
        + 7 * ISBN10Digit(s, 4) + 6 * ISBN10Digit(s, 5) + 5 * ISBN10Digit(s, 6)
        + 4 * ISBN10Digit(s, 7) + 3 * ISBN10Digit(s, 8) + 2 * ISBN10Digit(s, 9)
        + 1 * ISBN10Digit(s, 10)) % 11 = 0

\* The rule of the ISBN of 13 characters.
ISBN13Accepted(s) ==
    /\ \A i \in 1..13 : Char(s, i) \in Digits
    /\ (DigitVal(Char(s, 1)) + 3 * DigitVal(Char(s, 2)) + DigitVal(Char(s, 3))
        + 3 * DigitVal(Char(s, 4)) + DigitVal(Char(s, 5)) + 3 * DigitVal(Char(s, 6))
        + DigitVal(Char(s, 7)) + 3 * DigitVal(Char(s, 8)) + DigitVal(Char(s, 9))
        + 3 * DigitVal(Char(s, 10)) + DigitVal(Char(s, 11)) + 3 * DigitVal(Char(s, 12))
        + DigitVal(Char(s, 13))) % 10 = 0

\* C20: with productId.@type = ISBN, a productId of 10 characters is accepted
\* if and only if its first nine characters are digits, its tenth a digit or
\* X (worth 10) and 10*d1 + 9*d2 + ... + 1*d10 is divisible by 11; one of 13
\* characters if and only if all are digits and the sum with the weights
\* 1, 3, 1, 3, ... is divisible by 10; a failed check gives ErrInvalidISBN and
\* any other length ErrInvalidISBNLength.
C20_ISBNChecksums ==
    Called /\ op = "findItemsByProduct" /\ params["productId.@type"] = "ISBN" =>
        LET v == params["productId"] IN
        /\ Len(v) = 10 => (validateErr = nil <=> ISBN10Accepted(v))
        /\ Len(v) = 13 => (validateErr = nil <=> ISBN13Accepted(v))
        /\ Len(v) \in {10, 13} /\ validateErr # nil => validateErr = "ErrInvalidISBN"
        /\ Len(v) \notin {10, 13} => validateErr = "ErrInvalidISBNLength"
        /\ validateErr = nil => fp.product = Some([idType |-> "ISBN", value |-> v])

\* findItemsByProduct has validated the ISBN 802510897X.
C20_Witness ==
    /\ op = "findItemsByProduct"
    /\ params["productId.@type"] = "ISBN"
    /\ params["productId"] = "802510897X"
    /\ validateErr = nil
    /\ fp.product = Some([idType |-> "ISBN", value |-> "802510897X"])

\* findItemsByProduct has rejected an ISBN of 13 digits for its checksum.
C20_WitnessThirteen ==
    /\ op = "findItemsByProduct"
    /\ params["productId"] = "9780131101631"
    /\ apiErr = [Err |-> "ErrInvalidISBN", StatusCode |-> 400]

\* ------------------------------------------------------------------------
\* UPC and EAN product IDs
\* ------------------------------------------------------------------------

\* The characters a UPC or an EAN is varied with.
EANChars == Digits \cup {"X", "/", ":"}

\* Product IDs around the UPC 036000291452 and the EANs 73513537 and
\* 4006381333931: every first and every last character, and the lengths next
\* to 8, 12 and 13.
EANValues ==
    {"03600029145" \o c : c \in EANChars}
    \cup {c \o "36000291452" : c \in EANChars}
    \cup {"7351353" \o c : c \in EANChars}
    \cup {c \o "3513537" : c \in EANChars}
    \cup {"400638133393" \o c : c \in EANChars}
    \cup {c \o "006381333931" : c \in EANChars}
    \cup {"", "0", "7351353", "735135370", "03600029145", "40063813339310",
          "00000000", "000000000000", "0000000000000", "0360002X1452", "73X13537",
          "40063813X3931", "0131103628", "1"}

ProductIDTypes == {"UPC", "EAN", "ReferenceID", "upc", "GTIN", ""}

ProductIDMaps ==
    {("productId.@type" :> t) @@ ("productId" :> v) @@ ValidRequired :
        t \in ProductIDTypes, v \in EANValues}

InitEAN == InitWith(ProductIDMaps, {findingURL})

SpecEAN == InitEAN /\ [][Next]_vars

\* The sum of the digits of s, all of them digits, with the weight first on
\* the digits at the odd places (from 1) and the weight second on the others.
WeightedDigits(s, first, second) ==
    LET weighted == [i \in 1..Len(s) |->
                        (IF i % 2 = 1 THEN first ELSE second) * DigitVal(Char(s, i))]
        total[i \in 0..Len(s)] == IF i = 0 THEN 0 ELSE total[i - 1] + weighted[i]
    IN  total[Len(s)]

\* The rules of the UPC and of the EAN.
UPCAccepted(s) ==
    Len(s) = 12 /\ AllDigits(s) /\ WeightedDigits(s, 3, 1) % 10 = 0

EANAccepted(s) ==
    \/ Len(s) = 8 /\ AllDigits(s) /\ WeightedDigits(s, 3, 1) % 10 = 0
    \/ Len(s) = 13 /\ AllDigits(s) /\ WeightedDigits(s, 1, 3) % 10 = 0

\* C21: a UPC is accepted if and only if it has 12 digits and passes the
\* modulo-10 check with the weights 3, 1, 3, ... from the left; an EAN if and
\* only if it has 8 digits (weights 3, 1, 3, ...) or 13 digits (weights
\* 1, 3, 1, ...) and the weighted sum with the check digit is divisible by
\* 10; a wrong length gives the length error of the type, a failed check
\* ErrInvalidUPC or ErrInvalidEAN, and a type other than ReferenceID, ISBN,
\* UPC and EAN gives ErrUnsupportedProductIDType.
C21_UPCAndEANChecksums ==
    Called /\ op = "findItemsByProduct" =>
        LET t == params["productId.@type"]
            v == params["productId"]
        IN
        /\ t = "UPC" =>
              /\ validateErr = nil <=> UPCAccepted(v)
              /\ Len(v) # 12 => validateErr = "ErrInvalidUPCLength"
              /\ Len(v) = 12 /\ validateErr # nil => validateErr = "ErrInvalidUPC"
        /\ t = "EAN" =>
              /\ validateErr = nil <=> EANAccepted(v)
              /\ Len(v) \notin {8, 13} => validateErr = "ErrInvalidEANLength"
              /\ Len(v) \in {8, 13} /\ validateErr # nil => validateErr = "ErrInvalidEAN"
        /\ t \notin {"ReferenceID", "ISBN", "UPC", "EAN"} =>
              validateErr = "ErrUnsupportedProductIDType"
        /\ validateErr = nil => fp.product = Some([idType |-> t, value |-> v])

\* findItemsByProduct has validated the EAN 4006381333931.
C21_Witness ==
    /\ op = "findItemsByProduct"
    /\ params["productId.@type"] = "EAN"
    /\ params["productId"] = "4006381333931"
    /\ validateErr = nil
    /\ fp.product = Some([idType |-> "EAN", value |-> "4006381333931"])

\* findItemsByProduct has rejected a UPC of 12 digits for its check digit.
C21_WitnessUPC ==
    /\ op = "findItemsByProduct"
    /\ params["productId.@type"] = "UPC"
    /\ params["productId"] = "036000291453"
    /\ apiErr = [Err |-> "ErrInvalidUPC", StatusCode |-> 400]

\* findItemsByProduct has rejected the product ID type GTIN.
C21_WitnessType ==
    /\ op = "findItemsByProduct"
    /\ params["productId.@type"] = "GTIN"
    /\ apiErr = [Err |-> "ErrUnsupportedProductIDType", StatusCode |-> 400]

\* ------------------------------------------------------------------------
\* The store name
\* ------------------------------------------------------------------------

\* The largest number of pieces a store name is put together from.
MaxPieces == 3

StoreNamePieces == {"a", "&", "&amp;", "amp;"}

\* The store names of up to n pieces.
RECURSIVE PiecedNames(_)
PiecedNames(n) ==
    IF n = 0 THEN {""}
    ELSE PiecedNames(n - 1) \cup {s \o p : s \in PiecedNames(n - 1), p \in StoreNamePieces}

StoreNameMaps == {("storeName" :> s) @@ ValidRequired : s \in PiecedNames(MaxPieces)}

InitStore == InitWith(StoreNameMaps, {findingURL})

SpecStore == InitStore /\ [][Next]_vars

\* Every & of s begins an occurrence of &amp;.
EveryAmpersandEscaped(s) ==
    \A i \in 1..Len(s) :
        Char(s, i) = "&" => (i + 4 <= Len(s) /\ SubSeq(s, i, i + 4) = "&amp;")

\* s holds no &, or holds &amp; somewhere.
SomeAmpersandEscaped(s) ==
    (\E i \in 1..Len(s) : Char(s, i) = "&")
        => \E i \in 1..(Len(s) - 4) : SubSeq(s, i, i + 4) = "&amp;"

\* C22: a storeName is accepted if and only if it is not empty and every & in
\* it begins an occurrence of &amp;; an empty one fails with
\* ErrInvalidStoreNameLength and one with an unescaped & fails with
\* ErrInvalidStoreNameAmpersand.
C22_EveryAmpersandEscaped ==
    Called /\ op = "findItemsIneBayStores" =>
        LET s == params["storeName"] IN
        /\ validateErr = nil <=> (s # "" /\ EveryAmpersandEscaped(s))
        /\ s = "" => validateErr = "ErrInvalidStoreNameLength"
        /\ s # "" /\ ~EveryAmpersandEscaped(s) => validateErr = "ErrInvalidStoreNameAmpersand"

\* What the code does: a storeName is accepted if and only if it is not empty
\* and, when it holds an &, it holds &amp; somewhere.
C22_SomeAmpersandEscaped ==
    Called /\ op = "findItemsIneBayStores" =>
        LET s == params["storeName"] IN
        /\ validateErr = nil <=> (s # "" /\ SomeAmpersandEscaped(s))
        /\ s = "" => validateErr = "ErrInvalidStoreNameLength"
        /\ s # "" /\ ~SomeAmpersandEscaped(s) => validateErr = "ErrInvalidStoreNameAmpersand"
        /\ validateErr = nil => fp.storeName = Some(s)

\* ------------------------------------------------------------------------
\* The affiliate fields
\* ------------------------------------------------------------------------

\* affiliate.networkId and affiliate.trackingId absent, valid and invalid in
\* each way, with and without a sign or a leading zero, beside customId and
\* geoTargeting absent, valid and invalid.
AffiliateMaps ==
    {ValidRequired @@ f : f \in Combine(<<
        {EmptyMap} \cup {"affiliate.networkId" :> v :
                            v \in {"2", "5", "9", "1", "10", "+9", "09", "x", ""}},
        {EmptyMap} \cup {"affiliate.trackingId" :> v :
                            v \in {"1234567890", "123456789", "-123456789", "+123456789",
                                   "12345678901", "abcdefghij", "1", ""}},
        {EmptyMap, "affiliate.customId" :> "c"},
        {EmptyMap, "affiliate.geoTargeting" :> "true", "affiliate.geoTargeting" :> "maybe"}>>)}

InitAffiliate == InitWith(AffiliateMaps, {findingURL})

SpecAffiliate == InitAffiliate /\ [][Next]_vars

\* customId and geoTargeting, checked before the network and tracking IDs,
\* pass.
AffiliateOptionsPass(m) ==
    /\ Has(m, "affiliate.customId") => Len(m["affiliate.customId"]) <= 256
    /\ Has(m, "affiliate.geoTargeting") => m["affiliate.geoTargeting"] \in {"true", "false"}

\* C23: on validated parameters affiliate.networkId and affiliate.trackingId
\* are both present or both absent (one without the other fails with
\* ErrIncompleteAffiliateParams), networkId is an integer from 2 to 9, and
\* when it is 9 the trackingId consists of exactly 10 decimal digits.
C23_TenDigitCampaignID ==
    Called =>
        /\ /\ Has(params, "affiliate.networkId") # Has(params, "affiliate.trackingId")
           /\ AffiliateOptionsPass(params)
           => validateErr = "ErrIncompleteAffiliateParams"
        /\ validateErr = nil =>
              /\ Has(params, "affiliate.networkId") <=> Has(params, "affiliate.trackingId")
              /\ fp.affiliate[1].networkID = Opt(params, "affiliate.networkId")
              /\ fp.affiliate[1].trackingID = Opt(params, "affiliate.trackingId")
              /\ Has(params, "affiliate.networkId") =>
                    /\ ~AtoiErr(params["affiliate.networkId"])
                    /\ Atoi(params["affiliate.networkId"]) \in 2..9
                    /\ Atoi(params["affiliate.networkId"]) = 9 =>
                          /\ Len(params["affiliate.trackingId"]) = 10
                          /\ AllDigits(params["affiliate.trackingId"])

\* What the code does: the same, the trackingId of network 9 being a string
\* of 10 characters that strconv.Atoi accepts, digits after an optional sign.
C23_TenCharacterCampaignID ==
    Called =>
        /\ /\ Has(params, "affiliate.networkId") # Has(params, "affiliate.trackingId")
           /\ AffiliateOptionsPass(params)
           => validateErr = "ErrIncompleteAffiliateParams"
        /\ validateErr = nil =>
              /\ Has(params, "affiliate.networkId") <=> Has(params, "affiliate.trackingId")
              /\ fp.affiliate[1].networkID = Opt(params, "affiliate.networkId")
              /\ fp.affiliate[1].trackingID = Opt(params, "affiliate.trackingId")
              /\ Has(params, "affiliate.networkId") =>
                    /\ ~AtoiErr(params["affiliate.networkId"])
                    /\ Atoi(params["affiliate.networkId"]) \in 2..9
                    /\ Atoi(params["affiliate.networkId"]) = 9 =>
                          /\ Len(params["affiliate.trackingId"]) = 10
                          /\ AllDigits(Unsigned(params["affiliate.trackingId"]))

\* ------------------------------------------------------------------------
\* Bare and indexed syntax
\* ------------------------------------------------------------------------

\* Bare item filters: valid and invalid of several types, with the value
\* under value or under value(0), value(1), with and without a qualifier.
BareItemFilters ==
    {EmptyMap,
     ("itemFilter.name" :> "BestOfferOnly") @@ ("itemFilter.value" :> "true"),
     ("itemFilter.name" :> "BestOfferOnly") @@ ("itemFilter.value" :> "maybe"),
     ("itemFilter.name" :> "BestOfferOnly") @@ ("itemFilter.value(0)" :> "true"),
     ("itemFilter.name" :> "BestOfferOnly"),
     ("itemFilter.value" :> "true"),
     ("itemFilter.name" :> "Bogus") @@ ("itemFilter.value" :> "true"),
     ("itemFilter.name" :> "MaxPrice") @@ ("itemFilter.value" :> "5.0")
        @@ ("itemFilter.paramName" :> "Currency") @@ ("itemFilter.paramValue" :> "EUR"),
     ("itemFilter.name" :> "MaxPrice") @@ ("itemFilter.value" :> "5.0")
        @@ ("itemFilter.paramName" :> "Currency"),
     ("itemFilter.name" :> "ListingType") @@ ("itemFilter.value(0)" :> "Auction")
        @@ ("itemFilter.value(1)" :> "FixedPrice"),
     ("itemFilter.name" :> "ListingType") @@ ("itemFilter.value(0)" :> "Auction")
        @@ ("itemFilter.value(1)" :> "AuctionWithBIN"),
     ("itemFilter.name" :> "LocalSearchOnly") @@ ("itemFilter.value" :> "true"),
     ("itemFilter.name" :> "MaxDistance") @@ ("itemFilter.value" :> "5"),
     ("itemFilter.name" :> "MaxDistance") @@ ("itemFilter.value" :> "5")
        @@ ("buyerPostalCode" :> "111"),
     ("itemFilter.name" :> "Seller") @@ ("itemFilter.value" :> "abc"),
     ("itemFilter.name" :> "ExcludeSeller") @@ ("itemFilter.value" :> "a b")}

\* Bare aspect filters, complete and not.
BareAspectFilters ==
    {EmptyMap,
     ("aspectFilter.aspectName" :> "Size") @@ ("aspectFilter.aspectValueName" :> "10 & up"),
     ("aspectFilter.aspectName" :> "Size") @@ ("aspectFilter.aspectValueName(0)" :> "10")
        @@ ("aspectFilter.aspectValueName(1)" :> "11"),
     ("aspectFilter.aspectName" :> "Size"),
     ("aspectFilter.aspectValueName" :> "10")}

\* Params with each construct absent or in its bare form.
BareMaps ==
    {ValidRequiredNoCategory @@ f : f \in Combine(<<
        {EmptyMap, "categoryId" :> "1", "categoryId" :> "abc"},
        {EmptyMap, "outputSelector" :> "SellerInfo", "outputSelector" :> "Bogus"},
        BareItemFilters,
        BareAspectFilters>>)}

InitBare == InitWith(BareMaps, {findingURL})

SpecBare == InitBare /\ [][Next]_vars

\* The string s begins with pre, ends with suf.
StartsWith(s, pre) == Len(s) >= Len(pre) /\ SubSeq(s, 1, Len(pre)) = pre

EndsWith(s, suf) == Len(s) >= Len(suf) /\ SubSeq(s, Len(s) - Len(suf) + 1, Len(s)) = suf

\* The constructs that have a bare form.
Constructs24 ==
    {"categoryId", "outputSelector", "itemFilter", "aspectFilter", "value", "aspectValueName"}

\* The replacements made: of one construct, of a filter and its value, and
\* of all constructs.
Replacements ==
    {{c} : c \in Constructs24}
    \cup {{"itemFilter", "value"}, {"aspectFilter", "aspectValueName"}, Constructs24}

\* The key k with the bare forms of the constructs of cs replaced by their
\* index-0 forms.
IndexZeroFilter(k, cs) ==
    IF "categoryId" \in cs /\ k = "categoryId" THEN "categoryId(0)"
    ELSE IF "outputSelector" \in cs /\ k = "outputSelector" THEN "outputSelector(0)"
    ELSE IF "itemFilter" \in cs /\ StartsWith(k, "itemFilter.")
    THEN "itemFilter(0)" \o SubSeq(k, 11, Len(k))
    ELSE IF "aspectFilter" \in cs /\ StartsWith(k, "aspectFilter.")
    THEN "aspectFilter(0)" \o SubSeq(k, 13, Len(k))
    ELSE k

IndexZeroValue(k, cs) ==
    IF \/ "value" \in cs /\ EndsWith(k, ".value")
       \/ "aspectValueName" \in cs /\ EndsWith(k, ".aspectValueName")
    THEN k \o "(0)"
    ELSE k

IndexZeroKey(k, cs) == IndexZeroValue(IndexZeroFilter(k, cs), cs)

\* The params m with the bare forms of the constructs of cs replaced by
\* their index-0 forms.
IndexZero(m, cs) ==
    [k2 \in {IndexZeroKey(k, cs) : k \in DOMAIN m} |->
        m[CHOOSE k \in DOMAIN m : IndexZeroKey(k, cs) = k2]]

\* The key k of a query carries an explicit index wherever a construct has
\* one.
ExplicitlyIndexed(k) ==
    /\ k \notin {"categoryId", "outputSelector"}
    /\ ~StartsWith(k, "itemFilter.") /\ ~StartsWith(k, "aspectFilter.")
    /\ ~EndsWith(k, ".value") /\ ~EndsWith(k, ".aspectValueName")

\* The encoded query of the request of operation o for the params m.
QueryFor(o, m, clock, url) ==
    Encode(urlQuery(url) \o newRequestQuery(o, validate(o, m, clock).val))

EmitGroups ==
    << {EmptyMap, "Global-ID" :> "EBAY-US"},
       {EmptyMap, ("aspectFilter.aspectName" :> "Size")
                  @@ ("aspectFilter.aspectValueName" :> "10")},
       {EmptyMap, ("itemFilter.name" :> "BestOfferOnly") @@ ("itemFilter.value" :> "true")
                  @@ ("outputSelector" :> "SellerInfo")},
       {EmptyMap, ("affiliate.networkId" :> "2") @@ ("affiliate.trackingId" :> "1")
                  @@ ("buyerPostalCode" :> "111")},
       {EmptyMap, ("paginationInput.entriesPerPage" :> "1") @@ ("sortOrder" :> "BestMatch")} >>

RECURSIVE EmitOptionals(_)
EmitOptionals(n) ==
    IF n = 0 THEN {EmptyMap}
    ELSE {f @@ g : f \in EmitOptionals(n - 1), g \in EmitGroups[n]}

EmitMaps == {ValidRequired @@ f : f \in EmitOptionals(Len(EmitGroups))}

InitEmit == InitWith(EmitMaps, {findingURL})

SpecEmit == InitEmit /\ [][Next]_vars

\* The keys of the query string s, still escaped, in the order s lists them.
ListedKeys(s) ==
    LET fields == FieldsFunc(s, {"&"})
    IN  [i \in 1..Len(fields) |-> FieldsFunc(fields[i], {"="})[1]]

\* The place of parameter k among the listed keys, 0 if it is not there.
ParamAt(listed, k) ==
    LET at == {i \in 1..Len(listed) : listed[i] = QueryEscape(k)}
    IN  IF at = {} THEN 0 ELSE CHOOSE i \in at : \A j \in at : i <= j

\* The places of the parameters keys in the query string s.
PlacesIn(listed, keys) == [k \in keys |-> ParamAt(listed, k)]

Places(s, keys) == PlacesIn(ListedKeys(s), keys)

\* The rank of a parameter in the stated emission order, 0 if the order
\* does not speak of it.
EmissionRank(k) ==
    CASE k = "OPERATION-NAME" -> 1
      [] k = "SERVICE-VERSION" -> 2
      [] k = "SECURITY-APPNAME" -> 3
      [] k = "RESPONSE-DATA-FORMAT" -> 4
      [] StartsWith(k, "aspectFilter") -> 5
      [] StartsWith(k, "categoryId") -> 6
      [] StartsWith(k, "itemFilter") -> 7
      [] k \in {"keywords", "productId", "productId.@type", "storeName"} -> 8
      [] StartsWith(k, "outputSelector") -> 9
      [] StartsWith(k, "affiliate.") -> 10
      [] k = "buyerPostalCode" -> 11
      [] StartsWith(k, "paginationInput.") -> 12
      [] k = "sortOrder" -> 13
      [] OTHER -> 0

SentKeys == IF req = None THEN {} ELSE QueryKeys(urlQuery(URL) \o req[1])

InEmissionOrder(keys, at) ==
    \A k1 \in keys, k2 \in keys :
        (/\ EmissionRank(k1) > 0
         /\ EmissionRank(k1) < EmissionRank(k2))
            => at[k1] < at[k2]

InKeyOrder(keys, at) ==
    /\ \A k \in keys : at[k] > 0
    /\ \A k1 \in keys, k2 \in keys : stringLess(k1, k2, 1) => at[k1] < at[k2]

HoldsEvery(s, q) ==
    LET fields == FieldsFunc(s, {"&"})
    IN  /\ Len(fields) = Len(q)
        /\ \A i \in 1..Len(q) :
               \E j \in 1..Len(fields) :
                   fields[j] = QueryEscape(q[i][1]) \o "=" \o QueryEscape(q[i][2])

\* C25 as stated: the query string of a validated request lists its
\* parameters in the emission order: operation name, service version,
\* application ID, response data format, aspect filters, category IDs, item
\* filters, the operation-specific field, output selectors, affiliate,
\* postal code, pagination, sort order.
C25_EmissionOrder ==
    (Called /\ req # None) =>
        InEmissionOrder(SentKeys, Places(RawQuery, SentKeys))

\* C25 as the code has it: the query string of a validated request holds
\* every parameter of the request, and lists the parameters in the byte
\* order of their keys, whatever the order they were added in.
C25_KeyOrder ==
    (Called /\ req # None) =>
        /\ HoldsEvery(RawQuery, urlQuery(URL) \o req[1])
        /\ InKeyOrder(SentKeys, Places(RawQuery, SentKeys))

C25_Witness ==
    /\ Called
    /\ op = "findItemsAdvanced"
    /\ req # None
    /\ \A r \in 1..13 : \E k \in SentKeys : EmissionRank(k) = r
    /\ StartsWith(RawQuery,
           "Global-ID=EBAY-US&OPERATION-NAME=findItemsAdvanced&RESPONSE-DATA-FORMAT=JSON&REST-PAYLOAD=&SECURITY-APPNAME=")
    /\ EndsWith(RawQuery, "&sortOrder=BestMatch")

\* ---------------------------------------------------------------------
\* The decoded response (finding.go:206-225, response.go:14-21).
\* ---------------------------------------------------------------------

\* ItemsResponse of the response value the last call returned: the zero
\* value, a nil slice, unless json.NewDecoder(resp.Body).Decode(&res) was
\* reached and filled it from the body.
ItemsResponse ==
    IF /\ Len(steps) = 4
       /\ resp.decodes
    THEN resp.items
    ELSE None

\* C26 as stated: when a Find* call returns a nil error, the response it
\* returns holds a non-nil ItemsResponse, whatever body came with status 200.
C26_NilErrorHasItems ==
    (Called /\ apiErr = NoAPIError) => ItemsResponse # None

\* What the code ensures: a nil error means the call validated, built the
\* request, got status 200 and a body that decoded; ItemsResponse is then
\* whatever the body held under the response key, nil when it held nothing.
C26_NilErrorMeansDecoded ==
    (Called /\ apiErr = NoAPIError) =>
        /\ validateErr = nil
        /\ ~resp.failed
        /\ resp.StatusCode = StatusOK
        /\ resp.decodes
        /\ ItemsResponse = resp.items

\* ---------------------------------------------------------------------
\* Calls in flight at once on one client (finding.go:73-80, 197-225).
\* ---------------------------------------------------------------------

\* Maps that validate under every operation, under some, and under none; one
\* has a date filter, which is checked against the clock.
ConcurrentMaps ==
    {ValidRequired @@ ValidOptionals,
     ("keywords" :> "ab") @@ ("itemFilter.name" :> "EndTimeFrom")
         @@ ("itemFilter.value" :> "2024-06-02T00:00:00Z"),
     ("categoryId" :> "1") @@ ("sortOrder" :> "Nearest"),
     EmptyMap}

InitConcurrent == InitWith(ConcurrentMaps, {findingURL, malformedURL})

SpecConcurrent == InitConcurrent /\ [][NextConcurrent]_vars

\* What a call of operation o returns when it runs alone on the map m and
\* the server answers r.
Alone(o, m, clock, url, r) == findItemsFrom(o, validate(o, m, clock), url, r)

SameAsAlone(call, alone) ==
    /\ call.steps = alone.steps
    /\ call.apiErr = alone.apiErr
    /\ call.req = alone.req
    /\ call.resp = alone.resp

\* C27: calls share no mutable state.  Every call that has returned, however
\* its steps were interleaved with those of the other call on the client,
\* has the outcome (error, request query, steps taken) that the same
\* operation has when it runs alone on the caller's map with the same clock
\* and the same answer of the server; two calls of one operation that got
\* the same answer returned the same error and sent the same query string.
C27_NoSharedState ==
    /\ \A c \in CallIds :
           calls[c].pc = "done" =>
               SameAsAlone(calls[c], Alone(calls[c].op, params, now, URL, calls[c].resp))
    /\ \A c \in CallIds, d \in CallIds :
           (/\ calls[c].pc = "done"
            /\ calls[d].pc = "done"
            /\ calls[c].op = calls[d].op
            /\ calls[c].resp = calls[d].resp)
               => /\ calls[c].apiErr = calls[d].apiErr
                  /\ rawQueryOf(URL, calls[c].req) = rawQueryOf(URL, calls[d].req)

\* One call returned without an error while a call of another operation on
\* the same map is between its newRequest and its Do.
C27_Witness ==
    /\ calls["a"].pc = "done"
    /\ calls["a"].apiErr = NoAPIError
    /\ calls["a"].req # None
    /\ calls["b"].pc = "Do"
    /\ calls["b"].op # calls["a"].op
    /\ calls["b"].req # calls["a"].req

\* Two calls of one operation on one map both returned without an error.
C27_WitnessTwice ==
    /\ calls["a"].pc = "done"
    /\ calls["b"].pc = "done"
    /\ calls["a"].op = calls["b"].op
    /\ calls["a"].apiErr = NoAPIError
    /\ calls["b"].apiErr = NoAPIError
    /\ rawQueryOf(URL, calls["a"].req) # ""

\* ---------------------------------------------------------------------
\* The caller's map (filter.go:246-268, part_000:233-288).
\* ---------------------------------------------------------------------

\* C28: no Find* call, with its validate and its newRequest, adds, removes
\* or changes an entry of the caller's params map, whether validation passes
\* or fails at any of its steps.
C28_ParamsNeverMutated == [][params' = params]_vars

\* A call on a map with entries has validated and sent its request.
C28_Witness ==
    /\ Called
    /\ validateErr = nil
    /\ req # None
    /\ Cardinality(DOMAIN params) >= 10

\* A call on a map with entries has failed in validation.
C28_WitnessFailed ==
    /\ Called
    /\ validateErr # nil
    /\ apiErr.StatusCode = StatusBadRequest
    /\ Cardinality(DOMAIN params) >= 10

\* ---------------------------------------------------------------------
\* Reads by index (filter.go:246-268, 326-347, part_000:1021-1052).
\* ---------------------------------------------------------------------

\* processProductID handing every value of a checksummed type to its routine.
checksumAppliedAnyLength(idType, value) ==
    CASE idType = "ISBN" -> "isValidISBN"
      [] idType = "UPC" -> "isValidEAN"
      [] idType = "EAN" -> "isValidEAN"
      [] OTHER -> "none"

\* The checksum routine processProductID applies to value, "none" when it
\* returns before it applies one.
checksumApplied(idType, value) ==
    CASE idType = "ISBN" ->
            IF Len(value) # isbnShortLen /\ Len(value) # isbnLongLen THEN "none"
            ELSE "isValidISBN"
      [] idType = "UPC" ->
            IF Len(value) # upcLen THEN "none" ELSE "isValidEAN"
      [] idType = "EAN" ->
            IF Len(value) # eanShortLen /\ Len(value) # eanLongLen THEN "none"
            ELSE "isValidEAN"
      [] OTHER -> "none"

\* Product identifiers of every length from 0 to 14, well-formed or not.
SafeProductValues ==
    {"", "0", "12", "7351353", "73513537", "73513530", "735135370", "0131103628",
     "013110362X", "03600029145", "036000291452", "036000291453", "4006381333931",
     "9780131101630", "40063813339310", "abcdefgh", "            "}

SafeProductMaps ==
    {EmptyMap, "productId.@type" :> "EAN", "productId" :> "73513537"}
    \cup {("productId.@type" :> t) @@ ("productId" :> v) :
             t \in {"ISBN", "UPC", "EAN", "ReferenceID", ""}, v \in SafeProductValues}

\* Filters with a name and no value, with empty values, with gaps in the
\* indices, and in both syntaxes at once.
SafeFilterMaps ==
    {EmptyMap,
     "itemFilter.name" :> "BestOfferOnly",
     ("itemFilter.name" :> "BestOfferOnly") @@ ("itemFilter.value" :> ""),
     ("itemFilter.name" :> "") @@ ("itemFilter.value" :> ""),
     ("itemFilter.name" :> "MaxPrice") @@ ("itemFilter.value(1)" :> "5"),
     ("itemFilter.name" :> "ExcludeCategory") @@ ("itemFilter.value(0)" :> ""),
     "itemFilter(0).name" :> "Condition",
     ("itemFilter(0).name" :> "Condition") @@ ("itemFilter(0).value" :> ""),
     ("itemFilter(0).name" :> "ListingType") @@ ("itemFilter(0).value(0)" :> "")
         @@ ("itemFilter(1).name" :> "MinPrice"),
     ("itemFilter(0).name" :> "MinPrice") @@ ("itemFilter(0).value" :> "1")
         @@ ("itemFilter(1).name" :> "MaxPrice") @@ ("itemFilter(1).value(1)" :> "2"),
     ("itemFilter(0).name" :> "TopRatedSellerOnly") @@ ("itemFilter(0).value" :> "true")
         @@ ("itemFilter(1).name" :> "Seller") @@ ("itemFilter(1).value(0)" :> ""),
     "aspectFilter.aspectName" :> "Size",
     ("aspectFilter.aspectName" :> "") @@ ("aspectFilter.aspectValueName" :> ""),
     ("aspectFilter(0).aspectName" :> "Size") @@ ("aspectFilter(0).aspectValueName(1)" :> "S"),
     ("aspectFilter(0).aspectName" :> "Size") @@ ("aspectFilter(0).aspectValueName(0)" :> "")
         @@ ("itemFilter.value" :> "true")}

SafeMaps ==
    {p @@ f @@ r : p \in SafeProductMaps, f \in SafeFilterMaps,
                   r \in {EmptyMap, ("categoryId" :> "1") @@ ("keywords" :> "")
                                    @@ ("storeName" :> "")}}

InitSafe == InitWith(SafeMaps, {findingURL})

SpecSafe == InitSafe /\ [][Next]_vars

\* Every one of the item filters has a value to read at values[0].
AllHaveValues(itemFilters) ==
    \A i \in 1..Len(itemFilters) : Len(itemFilters[i].values) >= 1

AllHaveValueNames(aspectFilters) ==
    \A i \in 1..Len(aspectFilters) : Len(aspectFilters[i].aspectValueNames) >= 1

\* What the filter parser has built on map m when it starts the type checks.
BuiltWithValues(m) ==
    /\ parseFilterValues(m, "itemFilter.value").err = nil
           => Len(parseFilterValues(m, "itemFilter.value").val) >= 1
    /\ numberedItemFilterLoop(m, 0, <<>>).err = nil
           => AllHaveValues(numberedItemFilterLoop(m, 0, <<>>).val)
    /\ processAspectFilters(m).err = nil
           => AllHaveValueNames(processAspectFilters(m).val)

ChecksumErrors == {"ErrInvalidISBN", "ErrInvalidUPC", "ErrInvalidEAN"}

\* The routine applied to the product ID of map m, if any, gets a string of
\* a length it can index.
ChecksumInRange(m) ==
    (Has(m, "productId.@type") /\ Has(m, "productId")) =>
        LET applied == checksumApplied(m["productId.@type"], m["productId"])
            n == Len(m["productId"])
        IN  /\ applied = "isValidISBN" => n \in {isbnShortLen, isbnLongLen}
            /\ applied = "isValidEAN" => n \in {eanShortLen, upcLen, eanLongLen}
            /\ (op = "findItemsByProduct" /\ validateErr \in ChecksumErrors)
                   => applied # "none"

\* C29: on every params map validation returns a result or an error.  Every
\* aspect filter and item filter that is built has at least one value, so the
\* type checks that read values[0] never meet an empty list, and the ISBN,
\* UPC and EAN checksum routines are applied only to strings of the lengths
\* checked before, so that no index is out of range.
C29_NoIndexOutOfRange ==
    Called =>
        /\ BuiltWithValues(params)
        /\ validateErr = nil =>
               /\ AllHaveValues(fp.itemFilters)
               /\ AllHaveValueNames(fp.aspectFilters)
        /\ ChecksumInRange(params)

\* An item filter with the one value "" went through its type check, and
\* an EAN of no characters was turned away before the checksum.
C29_Witness ==
    /\ Called
    /\ op = "findItemsByProduct"
    /\ validateErr = "ErrInvalidEANLength"
    /\ params["productId"] = ""
    /\ Has(params, "itemFilter.name")
    /\ parseFilterValues(params, "itemFilter.value").val = <<"">>

\* A filter built from an empty value failed its type check.
C29_WitnessEmptyValue ==
    /\ Called
    /\ validateErr = "ErrInvalidBooleanValue"
    /\ params["itemFilter.value"] = ""

\* A checksum routine ran on a string of a checked length.
C29_WitnessChecksum ==
    /\ Called
    /\ op = "findItemsByProduct"
    /\ validateErr = "ErrInvalidUPC"
    /\ Len(params["productId"]) = upcLen

\* ---------------------------------------------------------------------
\* The order of the errors of numbered item filters (filter.go:211-244).
\* ---------------------------------------------------------------------

\* MaxFilters numbered item filters, each absent, valid, with one of the
\* structural faults or with one of the type faults.
FilterOrderForms(i) ==
    LET pre == Sprintf("itemFilter", i, "")
        named == (pre \o ".name") :> "BestOfferOnly"
    IN  {EmptyMap,
         named @@ ((pre \o ".value") :> "true"),
         named,
         named @@ ((pre \o ".value") :> "true") @@ ((pre \o ".value(0)") :> "true"),
         named @@ ((pre \o ".value") :> "true") @@ ((pre \o ".paramName") :> "Currency"),
         named @@ ((pre \o ".value(0)") :> "true") @@ ((pre \o ".paramValue") :> "USD"),
         named @@ ((pre \o ".value") :> "1"),
         ((pre \o ".name") :> "UnsupportedFilter") @@ ((pre \o ".value") :> "true"),
         ((pre \o ".name") :> "UnsupportedFilter") @@ ((pre \o ".paramName") :> "Currency")}

FilterOrderMaps ==
    {ValidRequired @@ f : f \in Combine([i \in 1..MaxFilters |-> FilterOrderForms(i - 1)])}

InitFilterOrder == InitWith(FilterOrderMaps, {findingURL})

SpecFilterOrder == InitFilterOrder /\ [][Next]_vars

\* The filters itemFilter(0), itemFilter(1), ... of m up to the first index
\* that has no name.
Collected(m) ==
    {i \in 0..(MaxFilters - 1) :
        \A j \in 0..i : Has(m, Sprintf("itemFilter", j, ".name"))}

\* The structural error of filter i of m, nil if it has none.
StructuralError(m, i) ==
    LET pre == Sprintf("itemFilter", i, "")
        bare == Has(m, pre \o ".value")
        zero == Has(m, pre \o ".value(0)")
    IN  IF ~bare /\ ~zero THEN "ErrIncompleteFilterNameOnly"
        ELSE IF bare /\ zero THEN "ErrInvalidIndexSyntax"
        ELSE IF Has(m, pre \o ".paramName") # Has(m, pre \o ".paramValue")
        THEN "ErrIncompleteItemFilterParam"
        ELSE nil

\* The type-specific error of filter i of m: its name is not a filter type,
\* or its first value is not a boolean.
TypeError(m, i) ==
    LET pre == Sprintf("itemFilter", i, "")
        first == IF Has(m, pre \o ".value(0)") THEN m[pre \o ".value(0)"]
                 ELSE m[pre \o ".value"]
    IN  IF m[pre \o ".name"] # "BestOfferOnly" THEN "ErrUnsupportedItemFilterType"
        ELSE IF first \notin {"true", "false"} THEN "ErrInvalidBooleanValue"
        ELSE nil

Lowest(S) == CHOOSE i \in S : \A j \in S : i <= j

\* The error the claim gives the numbered filters of m.
OrderedError(m) ==
    LET structural == {i \in Collected(m) : StructuralError(m, i) # nil}
        typed == {i \in Collected(m) : TypeError(m, i) # nil}
    IN  IF structural # {} THEN StructuralError(m, Lowest(structural))
        ELSE IF typed # {} THEN TypeError(m, Lowest(typed))
        ELSE nil

\* C30: in numbered syntax the filters itemFilter(0), itemFilter(1), ... are
\* all collected before any type-specific check runs.  A structural error of
\* any of them (no value, bare and indexed value together, paramName without
\* paramValue or the reverse) is reported in preference to every
\* type-specific error, even one of a filter of lower index; only when no
\* filter has a structural error is the type-specific error of the
\* lowest-indexed offending filter reported.
C30_StructuralErrorsFirst ==
    Called => validateErr = OrderedError(params)

\* itemFilter(0) has an unsupported name and a later filter a structural
\* fault: the structural error is the one reported.
C30_Witness ==
    /\ Called
    /\ 0 \in Collected(params)
    /\ StructuralError(params, 0) = nil
    /\ TypeError(params, 0) = "ErrUnsupportedItemFilterType"
    /\ \E i \in Collected(params) : i > 0 /\ StructuralError(params, i) # nil
    /\ validateErr \in {"ErrIncompleteFilterNameOnly", "ErrInvalidIndexSyntax",
                        "ErrIncompleteItemFilterParam"}

\* No structural fault, two filters with type faults: the error of the
\* lower index is reported.
C30_WitnessLowest ==
    /\ Called
    /\ \A i \in Collected(params) : StructuralError(params, i) = nil
    /\ 0 \in Collected(params)
    /\ TypeError(params, 0) = "ErrInvalidBooleanValue"
    /\ 1 \in Collected(params)
    /\ TypeError(params, 1) = "ErrUnsupportedItemFilterType"
    /\ validateErr = "ErrInvalidBooleanValue"

====
